---- MODULE Spec2Model ----
(***************************************************************************)
(* Dead Man's Draw: commit-reveal session lifecycle, Poseidon-weight deck  *)
(* derivation, the JavaScript game simulators (board simulator and witness *)
(* generator) and the PirateCards arithmetic circuit.                      *)
(*                                                                         *)
(* Field arithmetic is scaled: the BN254 scalar field (r < 2^254, split    *)
(* into 128 low bits and 126 high bits) is represented by a prime FieldP   *)
(* with 2^(FieldBits-1) < FieldP < 2^FieldBits, FieldBits = TruncBits +    *)
(* HighBits.  Gadget widths that act on small values (LessThan(5),         *)
(* GreaterEqThan(4)) keep the widths of the source.                        *)
(***************************************************************************)
EXTENDS Integers, Sequences, FiniteSets, Bags, TLC

\* ------------------------------------------------------------------ bounds
\* Scaled field modulus (stands for the BN254 scalar modulus r).
FieldP == 24659
\* Width of the truncated weight (stands for 128).
TruncBits == 12
\* Width of the high part of a weight (stands for 126).
HighBits == 3
\* Seeds a client can draw are 0..MaxSeed.
MaxSeed == 2

FieldBits == TruncBits + HighBits
TwoT == 2 ^ TruncBits
TwoF == 2 ^ FieldBits

\* ------------------------------------------------------- program constants
N_CARDS == 25

Field == 0 .. (FieldP - 1)
Seeds == 0 .. MaxSeed
MaxSessionId == 2
SessionIds == 1 .. MaxSessionId
Cards == 0 .. (N_CARDS - 1)

\* nRounds = Math.floor((N_CARDS - 1) / 2)
NRounds == (N_CARDS - 1) \div 2

\* ---------------------------------------------------------------- Poseidon
\* The x^5 S-box of Poseidon over the scaled field (a permutation: 5 does not
\* divide FieldP - 1).
Sbox(x) ==
    LET x2 == (x * x) % FieldP
    IN  (((x2 * x2) % FieldP) * x) % FieldP

\* One absorb-and-permute step of the sponge.
PoseidonMix(st, x) == Sbox((st + x + 302) % FieldP)

\* Poseidon of arity 1, 2, 3 (the capacity element encodes the arity).
Poseidon1(a) == PoseidonMix(PoseidonMix(1, a % FieldP), 0)
Poseidon2(a, b) == PoseidonMix(PoseidonMix(PoseidonMix(2, a % FieldP), b % FieldP), 0)
Poseidon3(a, b, c) ==
    PoseidonMix(PoseidonMix(PoseidonMix(PoseidonMix(3, a % FieldP), b % FieldP), c % FieldP), 0)

\* computeSeedCommitment: Poseidon(seed) (the hex encoding is a bijection on
\* field elements and is left out).
computeSeedCommitment(seed) == Poseidon1(seed)

\* ----------------------------------------------------------- card helpers
\* The simulator's cardType: 0 = Sails (0-7), 1 = Cannon (8-15),
\* 2 = Cutlass (16-23), 3 = Black Spot
cardType(c) == IF c < 8 THEN 0 ELSE IF c < 16 THEN 1 ELSE IF c < 24 THEN 2 ELSE 3

\* The simulator's rpsWinner: 0 tie, 1 player 1, 2 player 2
rpsWinner(type1, type2) ==
    IF type1 = type2 THEN 0
    ELSE IF (type1 + 1) % 3 = type2 THEN 1
    ELSE 2

\* The prover's own copy of cardType
cardType_prover(c) == IF c < 8 THEN 0 ELSE IF c < 16 THEN 1 ELSE IF c < 24 THEN 2 ELSE 3

\* An rpsWinner that lets the type one step behind win.
rpsWinner_reversed(type1, type2) ==
    IF type1 = type2 THEN 0
    ELSE IF (type2 + 1) % 3 = type1 THEN 1
    ELSE 2

\* The prover's own copy of rpsWinner
rpsWinner_prover(type1, type2) ==
    IF type1 = type2 THEN 0
    ELSE IF (type1 + 1) % 3 = type2 THEN 1
    ELSE 2

\* ------------------------------------------------------ deck derivation (JS)
\* The sequence s with every element evaluated (the value is s itself).
Materialize(s) == SubSeq(s, 1, Len(s))

\* A sort that ranks elements by truncWeight alone.
SortByTruncOnly(ws) ==
    LET n == Len(ws)
        rank == Materialize([i \in 1 .. n |->
                    1 + Cardinality({ j \in 1 .. n :
                            ws[j].truncWeight < ws[i].truncWeight })])
    IN  Materialize([k \in 1 .. n |->
            ws[CHOOSE i \in 1 .. n : \A j \in 1 .. n : rank[j] <= k => rank[j] <= rank[i]]])

\* Array.prototype.sort with the comparator (a.truncWeight < b.truncWeight ? -1 :
\* a.truncWeight > b.truncWeight ? 1 : 0).  The sort is stable: elements that
\* compare equal keep their order, so element i lands behind every element
\* with a smaller truncWeight and every earlier element with an equal one.
SortByTrunc(ws) ==
    LET n == Len(ws)
        rank == Materialize([i \in 1 .. n |->
                    1 + Cardinality({ j \in 1 .. n :
                            \/ ws[j].truncWeight < ws[i].truncWeight
                            \/ ws[j].truncWeight = ws[i].truncWeight /\ j < i })])
    IN  Materialize([k \in 1 .. n |-> ws[CHOOSE i \in 1 .. n : rank[i] = k]])

\* weights.map(w => w.card)
CardsOf(sorted) == Materialize([k \in 1 .. Len(sorted) |-> sorted[k].card])

\* The hashes of the weights loop: w[i + 1] = poseidon([combinedSeed, i])
WeightHashes(combinedSeed) ==
    Materialize([k \in 1 .. N_CARDS |-> Poseidon2(combinedSeed, k - 1)])

\* simulateFullGame, weights loop: { card: i, truncWeight: w & mask128 },
\* where w[i + 1] is the hash of card i
SimWeights(w) ==
    Materialize([k \in 1 .. N_CARDS |->
        [card |-> k - 1, truncWeight |-> w[k] % TwoT]])

\* simulateFullGame: weights.sort(...), deck = weights.map(w => w.card)
SimDeckOf(w) == CardsOf(SortByTrunc(SimWeights(w)))

\* simulateFullGame: the deck of a combined seed
SimDeck(combinedSeed) == SimDeckOf(WeightHashes(combinedSeed))

\* generateProof, weights loop: { card: i, weight: w, truncWeight: w & mask128 }
ProofWeightOf(card, w) == [card |-> card, weight |-> w, truncWeight |-> w % TwoT]
ProofWeightsOf(w) ==
    Materialize([k \in 1 .. N_CARDS |-> ProofWeightOf(k - 1, w[k])])
ProofWeights(combinedSeed) == ProofWeightsOf(WeightHashes(combinedSeed))

\* generateProof: deck = weights.map(w => w.card) after the sort
ProofDeckOf(w) == CardsOf(SortByTrunc(ProofWeightsOf(w)))

\* generateProof: the sorted weights (deck, truncWeights and highWeights are
\* read off this list)
ProofSorted(combinedSeed) == SortByTrunc(ProofWeights(combinedSeed))

\* ------------------------------------------------------- round logic (JS)
\* let scoreP1 = 0, scoreP2 = 0, winner = 0, gameOver = false
SimStart == [scoreP1 |-> 0, scoreP2 |-> 0, winner |-> 0, gameOver |-> FALSE]

\* simulateFullGame, end of a loop iteration: the loop variables and the
\* record pushed to rounds.
SimPush(scoreP1, scoreP2, winner, gameOver, cards, types, roundWinner, blackSpot) ==
    [st |-> [scoreP1 |-> scoreP1, scoreP2 |-> scoreP2, winner |-> winner,
             gameOver |-> gameOver],
     round |-> [card1 |-> cards[1], card2 |-> cards[2],
                type1 |-> types[1], type2 |-> types[2],
                roundWinner |-> roundWinner, blackSpot |-> blackSpot,
                scoreP1 |-> scoreP1, scoreP2 |-> scoreP2, gameOver |-> gameOver]]

\* A round after which the game goes on until a score passes 3.
SimScoredPastThree(st, cards, types, roundWinner, scoreP1, scoreP2) ==
    IF scoreP1 > 3
    THEN SimPush(scoreP1, scoreP2, 1, TRUE, cards, types, roundWinner, FALSE)
    ELSE IF scoreP2 > 3
    THEN SimPush(scoreP1, scoreP2, 2, TRUE, cards, types, roundWinner, FALSE)
    ELSE SimPush(scoreP1, scoreP2, st.winner, st.gameOver, cards, types,
                 roundWinner, FALSE)

\* simulateFullGame, else branch after the scores are updated:
\* if (scoreP1 >= 3) ... else if (scoreP2 >= 3) ...
SimScored(st, cards, types, roundWinner, scoreP1, scoreP2) ==
    IF scoreP1 >= 3
    THEN SimPush(scoreP1, scoreP2, 1, TRUE, cards, types, roundWinner, FALSE)
    ELSE IF scoreP2 >= 3
    THEN SimPush(scoreP1, scoreP2, 2, TRUE, cards, types, roundWinner, FALSE)
    ELSE SimPush(scoreP1, scoreP2, st.winner, st.gameOver, cards, types,
                 roundWinner, FALSE)

\* simulateFullGame, else branch: rps = rpsWinner(t1, t2) moves a score
SimRps(st, cards, types, rps) ==
    IF rps = 1 THEN SimScored(st, cards, types, 1, st.scoreP1 + 1, st.scoreP2)
    ELSE IF rps = 2 THEN SimScored(st, cards, types, 2, st.scoreP1, st.scoreP2 + 1)
    ELSE SimScored(st, cards, types, 0, st.scoreP1, st.scoreP2)

\* A round in which the Black Spot wins the game for the player who drew it.
SimTypedDrawerWins(st, cards, types) ==
    IF types[1] = 3
    THEN SimPush(st.scoreP1, st.scoreP2, 1, TRUE, cards, types, 0, TRUE)
    ELSE IF types[2] = 3
    THEN SimPush(st.scoreP1, st.scoreP2, 2, TRUE, cards, types, 0, TRUE)
    ELSE SimRps(st, cards, types, rpsWinner(types[1], types[2]))

\* simulateFullGame, the branch on the card types t1, t2
SimTyped(st, cards, types) ==
    IF types[1] = 3
    THEN SimPush(st.scoreP1, st.scoreP2, 2, TRUE, cards, types, 0, TRUE)
    ELSE IF types[2] = 3
    THEN SimPush(st.scoreP1, st.scoreP2, 1, TRUE, cards, types, 0, TRUE)
    ELSE SimRps(st, cards, types, rpsWinner(types[1], types[2]))

\* One iteration of simulateFullGame's round loop on cards c1, c2: the new
\* loop variables (st) and the record pushed to rounds (round).
SimRound(st, c1, c2) == SimTyped(st, << c1, c2 >>, << cardType(c1), cardType(c2) >>)

\* A finish whose coin flip is the bare low bit of the hash.
SimFinishBareCoin(st, lastBlackSpot, coinHash) ==
    IF ~st.gameOver THEN
        IF st.scoreP1 > st.scoreP2 THEN [winner |-> 1, endReason |-> "exhausted"]
        ELSE IF st.scoreP2 > st.scoreP1 THEN [winner |-> 2, endReason |-> "exhausted"]
        ELSE [winner |-> coinHash % 2, endReason |-> "coinflip"]
    ELSE IF lastBlackSpot THEN [winner |-> st.winner, endReason |-> "blackspot"]
    ELSE [winner |-> st.winner, endReason |-> "score"]

\* A finish that gives a level game to player 1 without a coin.
SimFinishTieToFirst(st, lastBlackSpot, coinHash) ==
    IF ~st.gameOver THEN
        IF st.scoreP1 >= st.scoreP2 THEN [winner |-> 1, endReason |-> "exhausted"]
        ELSE [winner |-> 2, endReason |-> "exhausted"]
    ELSE IF lastBlackSpot THEN [winner |-> st.winner, endReason |-> "blackspot"]
    ELSE [winner |-> st.winner, endReason |-> "score"]

\* A finish that reports every game ended inside the loop as "score".
SimFinishScoreOnly(st, lastBlackSpot, coinHash) ==
    IF ~st.gameOver THEN
        IF st.scoreP1 > st.scoreP2 THEN [winner |-> 1, endReason |-> "exhausted"]
        ELSE IF st.scoreP2 > st.scoreP1 THEN [winner |-> 2, endReason |-> "exhausted"]
        ELSE [winner |-> (coinHash % 2) + 1, endReason |-> "coinflip"]
    ELSE [winner |-> st.winner, endReason |-> "score"]

\* simulateFullGame after the loop: winner and endReason.  lastBlackSpot is
\* rounds.length > 0 && rounds[rounds.length - 1].blackSpot; coinHash is
\* Poseidon(combinedSeed, N_CARDS).
SimFinish(st, lastBlackSpot, coinHash) ==
    IF ~st.gameOver THEN
        IF st.scoreP1 > st.scoreP2 THEN [winner |-> 1, endReason |-> "exhausted"]
        ELSE IF st.scoreP2 > st.scoreP1 THEN [winner |-> 2, endReason |-> "exhausted"]
        ELSE [winner |-> (coinHash % 2) + 1, endReason |-> "coinflip"]
    ELSE IF lastBlackSpot THEN [winner |-> st.winner, endReason |-> "blackspot"]
    ELSE [winner |-> st.winner, endReason |-> "score"]

\* generateProof: let scoreP1 = 0, scoreP2 = 0, winner = 0, gameOver = false
ProofStart == [scoreP1 |-> 0, scoreP2 |-> 0, winner |-> 0, gameOver |-> FALSE]

\* generateProof, end of a loop iteration: the loop variables and the
\* gameLog entry (the round number is filled in by the loop).
ProofPush(scoreP1, scoreP2, winner, gameOver, cards, roundResult) ==
    [st |-> [scoreP1 |-> scoreP1, scoreP2 |-> scoreP2, winner |-> winner,
             gameOver |-> gameOver],
     entry |-> [c1 |-> cards[1], c2 |-> cards[2], result |-> roundResult,
                score |-> << scoreP1, scoreP2 >>]]

\* generateProof, else branch after the scores are updated
ProofScored(st, cards, roundResult, scoreP1, scoreP2) ==
    IF scoreP1 >= 3
    THEN ProofPush(scoreP1, scoreP2, 1, TRUE, cards,
                   << roundResult, " - P1 reaches 3!" >>)
    ELSE IF scoreP2 >= 3
    THEN ProofPush(scoreP1, scoreP2, 2, TRUE, cards,
                   << roundResult, " - P2 reaches 3!" >>)
    ELSE ProofPush(scoreP1, scoreP2, st.winner, st.gameOver, cards,
                   << roundResult, "" >>)

\* generateProof, else branch: rps = rpsWinner(t1, t2) moves a score
ProofRps(st, cards, rps) ==
    IF rps = 1 THEN ProofScored(st, cards, "P1 wins", st.scoreP1 + 1, st.scoreP2)
    ELSE IF rps = 2 THEN ProofScored(st, cards, "P2 wins", st.scoreP1, st.scoreP2 + 1)
    ELSE ProofScored(st, cards, "Tie", st.scoreP1, st.scoreP2)

\* generateProof, the branch on the card types t1, t2
ProofTyped(st, cards, types) ==
    IF types[1] = 3
    THEN ProofPush(st.scoreP1, st.scoreP2, 2, TRUE, cards,
                   << "P1 draws BlackSpot - P2 WINS", "" >>)
    ELSE IF types[2] = 3
    THEN ProofPush(st.scoreP1, st.scoreP2, 1, TRUE, cards,
                   << "P2 draws BlackSpot - P1 WINS", "" >>)
    ELSE ProofRps(st, cards, rpsWinner_prover(types[1], types[2]))

\* One iteration of generateProof's round loop on cards c1, c2.
ProofRound(st, c1, c2) ==
    ProofTyped(st, << c1, c2 >>, << cardType_prover(c1), cardType_prover(c2) >>)

\* generateProof after the loop: the declared winner.
ProofFinish(st, coinHash) ==
    IF ~st.gameOver THEN
        IF st.scoreP1 > st.scoreP2 THEN 1
        ELSE IF st.scoreP2 > st.scoreP1 THEN 2
        ELSE (coinHash % 2) + 1
    ELSE st.winner

\* The round loop of simulateFullGame over a whole deck (1-based sequence):
\* for (i = 0; i < nRounds && !gameOver; i++).
RECURSIVE SimLoop(_, _, _, _)
SimLoop(deck, i, st, rounds) ==
    IF i < NRounds /\ ~st.gameOver
    THEN LET r == SimRound(st, deck[2 * i + 1], deck[2 * i + 2])
         IN  SimLoop(deck, i + 1, r.st, Append(rounds, r.round))
    ELSE [st |-> st, rounds |-> rounds]

\* simulateFullGame, the end: return { deck, rounds, winner, endReason }.
\* l holds the loop variables and rounds after the loop.
SimReturn(deck, l, coinHash) ==
    [deck |-> deck, rounds |-> l.rounds] @@
    SimFinish(l.st, Len(l.rounds) > 0 /\ l.rounds[Len(l.rounds)].blackSpot, coinHash)

\* simulateFullGame from "Play rounds" on, for a deck and coin hash.
SimPlay(deck, coinHash) == SimReturn(deck, SimLoop(deck, 0, SimStart, << >>), coinHash)

\* simulateFullGame from the combined seed on.
SimFromSeed(combinedSeed) ==
    SimPlay(SimDeck(combinedSeed), Poseidon2(combinedSeed, N_CARDS))

\* simulateFullGame(seed1, seed2, sessionId) -> { deck, rounds, winner, endReason }
simulateFullGame(seed1, seed2, sessionId) ==
    SimFromSeed(Poseidon3(seed1, seed2, sessionId))

\* The round loop of generateProof over a whole deck.
RECURSIVE ProofLoop(_, _, _, _)
ProofLoop(deck, i, st, gameLog) ==
    IF i < NRounds /\ ~st.gameOver
    THEN LET r == ProofRound(st, deck[2 * i + 1], deck[2 * i + 2])
         IN  ProofLoop(deck, i + 1, r.st,
                       Append(gameLog, [round |-> i + 1] @@ r.entry))
    ELSE [st |-> st, gameLog |-> gameLog]

\* generateProof after the loop: the "end" entry pushed to gameLog when the
\* deck ran out (none when the game was over before).
ProofEndLog(st, coinHash) ==
    IF st.gameOver THEN << >>
    ELSE IF st.scoreP1 > st.scoreP2
    THEN << [round |-> "end",
             result |-> << "Deck exhausted: P1 wins", st.scoreP1, st.scoreP2 >>] >>
    ELSE IF st.scoreP2 > st.scoreP1
    THEN << [round |-> "end",
             result |-> << "Deck exhausted: P2 wins", st.scoreP2, st.scoreP1 >>] >>
    ELSE << [round |-> "end",
             result |-> << "Tied, coin flip", st.scoreP1, st.scoreP2,
                           (coinHash % 2) + 1 >>] >>

\* ------------------------------------------------------- circuit gadgets
\* Field element of an integer.
F(x) == x % FieldP

\* circomlib Num2Bits(n): out[i] are bits with sum(out[i] * 2^i) === in, the
\* sum taken in the field.  The integers a satisfying bit vector can spell.
Num2BitsValues(n, in) ==
    { v \in { in + k * FieldP : k \in 0 .. ((2 ^ n) \div FieldP) } : v < 2 ^ n }

\* circomlib LessThan(n): n2b = Num2Bits(n+1) of in[0] + 2^n - in[1];
\* out = 1 - n2b.out[n].  ok is FALSE when the range check has no solution.
LessThan(n, a, b) ==
    LET v == F(a + 2 ^ n + FieldP - b)
    IN  [ok |-> v < 2 ^ (n + 1), out |-> 1 - ((v \div (2 ^ n)) % 2)]

\* circomlib LessEqThan(n): LessThan(n) on (in[0], in[1] + 1)
LessEqThan(n, a, b) == LessThan(n, a, F(b + 1))

\* circomlib GreaterThan(n): LessThan(n) on (in[1], in[0])
GreaterThan(n, a, b) == LessThan(n, b, a)

\* circomlib GreaterEqThan(n): LessThan(n) on (in[1], in[0] + 1)
GreaterEqThan(n, a, b) == LessThan(n, b, F(a + 1))

\* circomlib IsZero / IsEqual: out is forced to 1 on equality and 0 otherwise
IsZero(in) == IF in = 0 THEN 1 ELSE 0
IsEqual(a, b) == IsZero(F(b + FieldP - a))

\* template CardType: type = (1-lt8) + (1-lt16) + (1-lt24)
CardType(card) ==
    LET lt8 == LessThan(5, card, 8)
        lt16 == LessThan(5, card, 16)
        lt24 == LessThan(5, card, 24)
    IN  [ok |-> lt8.ok /\ lt16.ok /\ lt24.ok,
         card_type |-> (1 - lt8.out) + (1 - lt16.out) + (1 - lt24.out)]

\* template GameRound, "Get card types": the input signals and type_p1,
\* type_p2.  ok is FALSE when a comparator has no solution.
GameRoundTypes(in, ct1, ct2) ==
    [score_p1_in |-> in.score_p1, score_p2_in |-> in.score_p2,
     game_active_in |-> in.game_active, winner_in |-> in.winner,
     type_p1 |-> ct1.card_type, type_p2 |-> ct2.card_type,
     ok |-> in.ok /\ ct1.ok /\ ct2.ok]

\* template GameRound, "Black spot detection"
GameRoundBlackSpot(s) ==
    LET is_bs_p1 == IsEqual(s.type_p1, 3)
        is_bs_p2 == IsEqual(s.type_p2, 3)
    IN  [is_bs_p1 |-> is_bs_p1, is_bs_p2 |-> is_bs_p2,
         bs_product |-> is_bs_p1 * is_bs_p2,
         any_bs |-> is_bs_p1 + is_bs_p2 - is_bs_p1 * is_bs_p2] @@ s

\* template GameRound, "RPS comparison"
GameRoundRps(s) ==
    LET combined == s.type_p1 * 3 + s.type_p2
    IN  [p1_wins_rps |-> IsEqual(combined, 1) + IsEqual(combined, 5) + IsEqual(combined, 6),
         is_tie |-> IsEqual(combined, 0) + IsEqual(combined, 4) + IsEqual(combined, 8)]
        @@ s

\* template GameRound, "Score updates"
GameRoundScores(s) ==
    LET no_bs == 1 - s.any_bs
        active_no_bs == s.game_active_in * no_bs
        p2_wins_rps == F(1 + 2 * FieldP - s.p1_wins_rps - s.is_tie)
    IN  [no_bs |-> no_bs,
         score_p1_out |-> F(s.score_p1_in + s.p1_wins_rps * active_no_bs),
         score_p2_out |-> F(s.score_p2_in + p2_wins_rps * active_no_bs)] @@ s

\* template GameRound, "Check for 3 wins"
GameRoundGe3(s) ==
    LET ge3_p1 == GreaterEqThan(4, s.score_p1_out, 3)
        ge3_p2 == GreaterEqThan(4, s.score_p2_out, 3)
    IN  [ge3_p1 |-> ge3_p1.out, ge3_p2 |-> ge3_p2.out,
         ok |-> s.ok /\ ge3_p1.ok /\ ge3_p2.ok] @@ s

\* A round winner without the gate on player 2's third win.
GameRoundWinnerUngated(s) ==
    LET can_set_winner == s.game_active_in * IsEqual(s.winner_in, 0)
        bs_winner_code == F(s.is_bs_p1 * 2 + s.is_bs_p2 * 1 + 3 * FieldP - s.bs_product * 3)
        score3_p1 == s.ge3_p1 * (can_set_winner * s.no_bs)
        score3_p2_temp == s.ge3_p2 * (can_set_winner * s.no_bs)
    IN  [bs_contribution |-> F((can_set_winner * s.any_bs) * bs_winner_code),
         score_contribution |-> score3_p1 * 1 + score3_p2_temp * 2]
        @@ s

\* template GameRound, "Determine round winner"
GameRoundWinner(s) ==
    LET can_set_winner == s.game_active_in * IsEqual(s.winner_in, 0)
        bs_winner_code == F(s.is_bs_p1 * 2 + s.is_bs_p2 * 1 + 3 * FieldP - s.bs_product * 3)
        score3_p1 == s.ge3_p1 * (can_set_winner * s.no_bs)
        score3_p2_temp == s.ge3_p2 * (can_set_winner * s.no_bs)
    IN  [bs_contribution |-> F((can_set_winner * s.any_bs) * bs_winner_code),
         score_contribution |-> score3_p1 * 1 + (score3_p2_temp * (1 - s.ge3_p1)) * 2]
        @@ s

\* template GameRound, winner_out and "Update game_active": the output signals
GameRoundOut(s) ==
    [score_p1 |-> s.score_p1_out, score_p2 |-> s.score_p2_out,
     game_active |-> s.game_active_in * IsZero(F(s.bs_contribution + s.score_contribution)),
     winner |-> F(s.winner_in + s.bs_contribution + s.score_contribution),
     ok |-> s.ok]

\* template GameRound: one round on the signals (score_p1, score_p2,
\* game_active, winner).
GameRound(in, card_p1, card_p2) ==
    GameRoundOut(GameRoundWinner(GameRoundGe3(GameRoundScores(GameRoundRps(
        GameRoundBlackSpot(GameRoundTypes(in, CardType(card_p1), CardType(card_p2))))))))

\* template GameSim: scores_p1[0] = scores_p2[0] = 0, active[0] = 1, winners[0] = 0
GameSimStart == [score_p1 |-> 0, score_p2 |-> 0, game_active |-> 1, winner |-> 0,
                 ok |-> TRUE]

\* A tiebreaker whose coin gives player 2 the low bit 0.
GameSimFinishCoinSwapped(fin, coin_lsb) ==
    LET s1_gt_s2 == GreaterThan(4, fin.score_p1, fin.score_p2)
        s2_gt_s1 == GreaterThan(4, fin.score_p2, fin.score_p1)
        scores_equal == IsEqual(fin.score_p1, fin.score_p2)
    IN  [ok |-> fin.ok /\ s1_gt_s2.ok /\ s2_gt_s1.ok,
         winner |-> F(fin.winner + s1_gt_s2.out * fin.game_active
                                 + s2_gt_s1.out * fin.game_active * 2
                                 + scores_equal * fin.game_active * (2 - coin_lsb))]

\* template GameSim, deck exhaustion tiebreaker: the output signal winner.
\* coin_lsb is coin_bits.out[0].
GameSimFinish(fin, coin_lsb) ==
    LET s1_gt_s2 == GreaterThan(4, fin.score_p1, fin.score_p2)
        s2_gt_s1 == GreaterThan(4, fin.score_p2, fin.score_p1)
        scores_equal == IsEqual(fin.score_p1, fin.score_p2)
        coin_winner == 1 + coin_lsb
        tb_p1_wins == s1_gt_s2.out * fin.game_active
        tb_p2_wins == s2_gt_s1.out * fin.game_active
        tb_tie == scores_equal * fin.game_active
        tiebreak_winner == tb_p1_wins * 1 + tb_p2_wins * 2 + tb_tie * coin_winner
    IN  [ok |-> fin.ok /\ s1_gt_s2.ok /\ s2_gt_s1.ok,
         winner |-> F(fin.winner + tiebreak_winner)]

\* template GameSim, the chain of rounds from round i on (deck is a 1-based
\* sequence, st the state signals entering round i).  An unsatisfiable round
\* leaves the whole system unsatisfiable.
RECURSIVE GameSimRounds(_, _, _)
GameSimRounds(deck, i, st) ==
    IF i < NRounds /\ st.ok
    THEN GameSimRounds(deck, i + 1, GameRound(st, deck[2 * i + 1], deck[2 * i + 2]))
    ELSE st

\* template GameSim, the output: satisfiable when the rounds and the
\* tiebreaker are and coin_bits, the integer spelled by the Num2Bits(254)
\* decomposition, equals Poseidon(combined_seed, nCards) in the field.
GameSimOut(g, combined_seed, coin_bits) ==
    [ok |-> g.ok /\ coin_bits \in Num2BitsValues(FieldBits, Poseidon2(combined_seed, N_CARDS)),
     winner |-> g.winner]

\* template GameSim
GameSim(deck, combined_seed, coin_bits) ==
    GameSimOut(GameSimFinish(GameSimRounds(deck, 0, GameSimStart), coin_bits % 2),
               combined_seed, coin_bits)

\* template DeckShuffle, "1. Permutation validity": range[i] = LessThan(5) on
\* (deck[i], nCards) with out === 1, and inv * (deck[i] - deck[j]) === 1 for
\* i < j, which has a solution inv exactly when deck[i] - deck[j] is not zero
\* in the field.  deck holds field elements.
PermutationValidity(deck) ==
    /\ \A i \in 1 .. N_CARDS :
          LET range == LessThan(5, deck[i], N_CARDS) IN range.ok /\ range.out = 1
    /\ \A i \in 1 .. N_CARDS : \A j \in (i + 1) .. N_CARDS :
          F(deck[i] + FieldP - deck[j]) # 0

\* template DeckShuffle, "2. Weight computation and truncation" for one card:
\* weight_hash.out === trunc + high * (1 << 128) in the field, Num2Bits(128)
\* on trunc and Num2Bits(126) on high.  trunc and high are the integers the
\* bit decompositions spell.
WeightTruncation(weight, trunc, high) ==
    /\ weight = F(trunc + high * TwoT)
    /\ trunc \in Num2BitsValues(TruncBits, trunc)
    /\ high \in Num2BitsValues(HighBits, high)

\* template DeckShuffle: range check, pairwise distinctness (an inverse of
\* deck[i] - deck[j] exists exactly when the difference is not zero), weight
\* decomposition, bit-length checks and the sorted check.
DeckShuffle(combined_seed, deck, trunc_weights, high_weights) ==
    /\ PermutationValidity(deck)
    /\ \A i \in 1 .. N_CARDS :
          WeightTruncation(Poseidon2(combined_seed, deck[i]), trunc_weights[i],
                           high_weights[i])
    /\ \A i \in 1 .. (N_CARDS - 1) :
          LET sorted == LessEqThan(TruncBits, trunc_weights[i], trunc_weights[i + 1])
          IN  sorted.ok /\ sorted.out = 1

\* template PirateCards, game.winner === winner (game_sim: the GameSim component)
WinnerConstraint(game_sim, winner) == game_sim.ok /\ game_sim.winner = winner

\* template PirateCards from the combined seed cs.out on.
PirateCardsSeeded(pub, wit, cs) ==
    /\ Poseidon1(pub.seed1) = pub.seed_commit1
    /\ Poseidon1(pub.seed2) = pub.seed_commit2
    /\ DeckShuffle(cs, wit.deck, wit.trunc_weights, wit.high_weights)
    /\ WinnerConstraint(GameSim(wit.deck, cs, wit.coin_bits), pub.winner)

\* template PirateCards: the constraint system on public inputs pub and
\* private witness wit (deck, trunc_weights, high_weights and the coin bits).
PirateCards(pub, wit) ==
    PirateCardsSeeded(pub, wit, Poseidon3(pub.seed1, pub.seed2, pub.session_id))

\* ------------------------------------------------------- witness generator
\* generateProof, "Circuit inputs": public inputs and private witness read
\* off the sorted weights.
CircuitInput(seed1, seed2, sessionId, weights, winner) ==
    [pub |-> [seed_commit1 |-> Poseidon1(seed1), seed_commit2 |-> Poseidon1(seed2),
              seed1 |-> seed1, seed2 |-> seed2, session_id |-> sessionId,
              winner |-> winner],
     wit |-> [deck |-> CardsOf(weights),
              trunc_weights |->
                  Materialize([k \in 1 .. N_CARDS |-> weights[k].truncWeight]),
              high_weights |->
                  Materialize([k \in 1 .. N_CARDS |-> weights[k].weight \div TwoT])]]

\* snarkjs.groth16.fullProve yields a proof for circuitInput exactly when
\* PirateCards accepts it with the witness coin_bits.
Accepted(circuitInput, coin_bits) ==
    PirateCards(circuitInput.pub, circuitInput.wit @@ [coin_bits |-> coin_bits])

\* generateProof, "Generate proof" and the return value.  fullProve computes
\* the witness (coin_bits gets the bits of the coin hash itself) and throws
\* when the constraints reject the input (ok = FALSE).
ProofReturn(circuitInput, coinHash, l) ==
    [publicInputs |-> circuitInput.pub,
     circuitInput |-> circuitInput.wit,
     gameLog |-> l.gameLog \o ProofEndLog(l.st, coinHash),
     winner |-> circuitInput.pub.winner,
     ok |-> Accepted(circuitInput, coinHash)]

\* generateProof from "Circuit inputs" on; l holds the loop variables and
\* gameLog after the loop.
ProofFromGame(seed1, seed2, sessionId, weights, coinHash, l) ==
    ProofReturn(CircuitInput(seed1, seed2, sessionId, weights,
                             ProofFinish(l.st, coinHash)), coinHash, l)

\* generateProof from "Simulate game" on, for the sorted weights.
ProofFromWeights(seed1, seed2, sessionId, weights, coinHash) ==
    ProofFromGame(seed1, seed2, sessionId, weights, coinHash,
                  ProofLoop(CardsOf(weights), 0, ProofStart, << >>))

\* generateProof from the combined seed on.
ProofFromSeed(seed1, seed2, sessionId, combinedSeed) ==
    ProofFromWeights(seed1, seed2, sessionId, ProofSorted(combinedSeed),
                     Poseidon2(combinedSeed, N_CARDS))

\* generateProof(seed1, seed2, sessionId)
generateProof(seed1, seed2, sessionId) ==
    ProofFromSeed(seed1, seed2, sessionId, Poseidon3(seed1, seed2, sessionId))

\* ------------------------------------------------------ adversarial prover
\* A prover is free to run the proving system on any circuit input.  The
\* inputs tried here depart from generateProof's in one place:
\*   honest        generateProof's own witness
\*   coin          coin_bits spells coinHash + FieldP instead of coinHash
\*   alias k       card k's weight w is split as the integer w + FieldP
\*   swap k        sorted positions k, k+1 are exchanged
\*   subst k, c    card k is replaced by the field element c
MaxNeg == 1
NegCards == { FieldP - j : j \in 1 .. MaxNeg }
Tampers ==
    {[kind |-> "honest", k |-> 0, c |-> 0], [kind |-> "coin", k |-> 0, c |-> 0]}
    \cup [kind : {"alias"}, k : Cards, c : {0}]
    \cup [kind : {"swap"}, k : 1 .. (N_CARDS - 1), c : {0}]
    \cup [kind : {"subst"}, k : Cards, c : NegCards]

\* The circuit input a prover builds under tamper t: weights are split as
\* integers v (trunc = v mod 2^TruncBits, high = v div 2^TruncBits) and the
\* list is sorted by the truncated part, as generateProof does.
TamperedItems(combinedSeed, t) ==
    Materialize([i \in 1 .. N_CARDS |->
        IF t.kind = "subst" /\ t.k = i - 1
        THEN ProofWeightOf(t.c, Poseidon2(combinedSeed, t.c))
        ELSE ProofWeightOf(i - 1, Poseidon2(combinedSeed, i - 1)
                                  + (IF t.kind = "alias" /\ t.k = i - 1
                                     THEN FieldP ELSE 0))])

TamperedOrder(sorted, t) ==
    Materialize([i \in 1 .. N_CARDS |->
        IF t.kind = "swap" /\ i = t.k THEN sorted[i + 1]
        ELSE IF t.kind = "swap" /\ i = t.k + 1 THEN sorted[i - 1]
        ELSE sorted[i]])

\* The sorted weight list a prover holds under tamper t.
TamperedWeights(combinedSeed, t) ==
    TamperedOrder(SortByTrunc(TamperedItems(combinedSeed, t)), t)

ProveInputs == [seed1 : Seeds, seed2 : Seeds, sessionId : SessionIds]

\* The circuit inputs a prover can try when the combined seed is combinedSeed:
\* tamper kind, sorted weight list and coin_bits.
AdversaryInputsSeeded(combinedSeed) ==
    { [kind |-> t.kind,
       weights |-> TamperedWeights(combinedSeed, t),
       coin_bits |-> Poseidon2(combinedSeed, N_CARDS)
                     + (IF t.kind = "coin" THEN FieldP ELSE 0)] : t \in Tampers }

\* The circuit inputs a prover can try on the public inputs p.
AdversaryInputs(p) == AdversaryInputsSeeded(Poseidon3(p.seed1, p.seed2, p.sessionId))

\* The winner when the adversary input a with declared winner gives a
\* satisfying assignment of PirateCards on the public inputs p, 0 otherwise.
ProvedWinner(p, a, winner) ==
    IF Accepted(CircuitInput(p.seed1, p.seed2, p.sessionId, a.weights, winner),
                a.coin_bits)
    THEN winner ELSE 0

\* Every (public inputs, tamper kind, winner) for which a proof can be made.
Provable ==
    UNION { { << p, a.kind, ProvedWinner(p, a, w) >> :
                  a \in AdversaryInputs(p), w \in {1, 2} }
            : p \in ProveInputs }

\* The (kind, winner) pairs provable on the public inputs p.
ProvableOn(p) == { << x[2], x[3] >> : x \in { y \in Provable : y[1] = p /\ y[3] # 0 } }

\* ---------------------------------------------------------------------------
\* The on-chain session store (spec.md section 3 and section 4.5; the contract
\* is called through createGame, joinGame, revealSeed, settleGame and getGame
\* of soroban.js).  Every operation is keyed by a session id and touches the
\* session of that id only, so the store is followed one session at a time:
\* a behaviour creates a session under any one id and calls on that id.
\* ---------------------------------------------------------------------------

Addresses == {"GA", "GB"}
NoAddress == "none"

\* The all-zero blob that stands for "not revealed" (and for an unset commit).
ZeroSentinel == 0

Commits == { computeSeedCommitment(s) : s \in Seeds }

NextPhase(phase) ==
    CASE phase = "Open" -> "Committed"
      [] phase = "Committed" -> "Revealed"
      [] phase = "Revealed" -> "Settled"
      [] OTHER -> "none"

NewSession(player1, commit1) ==
    [player1 |-> player1, player2 |-> NoAddress,
     commit1 |-> commit1, commit2 |-> ZeroSentinel,
     seed1 |-> ZeroSentinel, seed2 |-> ZeroSentinel,
     phase |-> "Open", winner |-> 0]

\* A join that never looks at the phase.
JoinResultAnyPhase(session, player2) ==
    IF player2 = session.player1 THEN "SelfJoin" ELSE "Ok"

JoinResult(session, player2) ==
    IF session.phase # "Open" THEN "NotOpen"
    ELSE IF player2 = session.player1 THEN "SelfJoin"
    ELSE "Ok"

Joined(session, player2, commit2) ==
    [session EXCEPT !.player2 = player2, !.commit2 = commit2,
                    !.phase = "Committed"]

\* A store that opens every reveal against the first player's commit.
commit_of_first(session, who) == session.commit1

commit_of(session, who) ==
    IF who = session.player1 THEN session.commit1 ELSE session.commit2

seed_of(session, who) ==
    IF who = session.player1 THEN session.seed1 ELSE session.seed2

\* A reveal that never compares the seed with the commit.
RevealResultUnopened(session, who, seed) ==
    IF session.phase # "Committed" THEN "NotCommitted"
    ELSE IF seed_of(session, who) # ZeroSentinel THEN "AlreadyRevealed"
    ELSE "Ok"

\* A reveal that lets a player reveal again.
RevealResultRepeatable(session, who, seed) ==
    IF session.phase # "Committed" THEN "NotCommitted"
    ELSE IF Poseidon1(seed) # commit_of(session, who) THEN "BadOpening"
    ELSE "Ok"

RevealResult(session, who, seed) ==
    IF session.phase # "Committed" THEN "NotCommitted"
    ELSE IF Poseidon1(seed) # commit_of(session, who) THEN "BadOpening"
    ELSE IF seed_of(session, who) # ZeroSentinel THEN "AlreadyRevealed"
    ELSE "Ok"

\* A store that files the seeds in their order of arrival.
SeedWrittenInArrivalOrder(session, who, seed) ==
    IF session.seed1 = ZeroSentinel
    THEN [session EXCEPT !.seed1 = seed]
    ELSE [session EXCEPT !.seed2 = seed]

SeedWritten(session, who, seed) ==
    IF who = session.player1
    THEN [session EXCEPT !.seed1 = seed]
    ELSE [session EXCEPT !.seed2 = seed]

BothPresent(session) ==
    session.seed1 # ZeroSentinel /\ session.seed2 # ZeroSentinel

\* A store that advances as soon as one seed is present.
AdvancedOnFirst(session) ==
    IF session.seed1 # ZeroSentinel \/ session.seed2 # ZeroSentinel
    THEN [session EXCEPT !.phase = "Revealed"] ELSE session

Advanced(session) ==
    IF BothPresent(session) THEN [session EXCEPT !.phase = "Revealed"] ELSE session

Revealed(session, who, seed) == Advanced(SeedWritten(session, who, seed))

\* The six public inputs of the session sid as stored, with a declared winner.
StoredInputs(session, sid, winner) ==
    [seed_commit1 |-> session.commit1, seed_commit2 |-> session.commit2,
     seed1 |-> session.seed1, seed2 |-> session.seed2,
     session_id |-> sid, winner |-> winner]

InputsMatch(session, sid, pubs) ==
    /\ pubs.seed_commit1 = session.commit1
    /\ pubs.seed_commit2 = session.commit2
    /\ pubs.seed1 = session.seed1
    /\ pubs.seed2 = session.seed2
    /\ pubs.session_id = sid

\* The proofs that exist, by how they were made: "honest" by generateProof,
\* "crafted" from a circuit input of the prover's own making.
Verifiable ==
    { << x[1], IF x[2] = "honest" THEN "honest" ELSE "crafted", x[3] >> :
          x \in { y \in Provable : y[3] # 0 } }

\* Groth16 verification: it accepts exactly the proofs made from a satisfying
\* assignment with these public inputs; "junk" is no such proof.
verify(proof, pubs) ==
    /\ pubs.seed_commit1 = Poseidon1(pubs.seed1)
    /\ pubs.seed_commit2 = Poseidon1(pubs.seed2)
    /\ << [seed1 |-> pubs.seed1, seed2 |-> pubs.seed2, sessionId |-> pubs.session_id],
          proof, pubs.winner >> \in Verifiable

\* A settle that never looks at the phase.
SettleResultUnphased(session, sid, proof, pubs) ==
    IF ~InputsMatch(session, sid, pubs) THEN "InputMismatch"
    ELSE IF pubs.winner \notin {1, 2} \/ ~verify(proof, pubs) THEN "InvalidProof"
    ELSE "Ok"

\* A settle that takes a settled session for a revealed one.
SettleResultAgain(session, sid, proof, pubs) ==
    IF session.phase \notin {"Revealed", "Settled"} THEN "NotRevealed"
    ELSE IF ~InputsMatch(session, sid, pubs) THEN "InputMismatch"
    ELSE IF pubs.winner \notin {1, 2} \/ ~verify(proof, pubs) THEN "InvalidProof"
    ELSE "Ok"

\* A settle that never compares the submitted inputs with the stored ones.
SettleResultUnmatched(session, sid, proof, pubs) ==
    IF session.phase = "Settled" THEN "AlreadySettled"
    ELSE IF session.phase # "Revealed" THEN "NotRevealed"
    ELSE IF pubs.winner \notin {1, 2} \/ ~verify(proof, pubs) THEN "InvalidProof"
    ELSE "Ok"

SettleResult(session, sid, proof, pubs) ==
    IF session.phase = "Settled" THEN "AlreadySettled"
    ELSE IF session.phase # "Revealed" THEN "NotRevealed"
    ELSE IF ~InputsMatch(session, sid, pubs) THEN "InputMismatch"
    ELSE IF pubs.winner \notin {1, 2} \/ ~verify(proof, pubs) THEN "InvalidProof"
    ELSE "Ok"

\* A settle that closes the session without recording the winner.
SettledWithoutWinner(session, pubs) == [session EXCEPT !.phase = "Settled"]

Settled(session, pubs) ==
    [session EXCEPT !.winner = pubs.winner, !.phase = "Settled"]

\* The public inputs a caller submits: the stored ones, or with one of them
\* replaced by another value.
OtherSeed(seed) == (seed + 1) % (MaxSeed + 1)
OtherCommit(commit) == (commit + 1) % FieldP
OtherSession(sid) == (sid % MaxSessionId) + 1

WrongFields == {"none", "seed1", "seed2", "seed_commit1", "seed_commit2", "session_id"}

SubmittedInputs(pubs, wrong) ==
    CASE wrong = "seed1" -> [pubs EXCEPT !.seed1 = OtherSeed(@)]
      [] wrong = "seed2" -> [pubs EXCEPT !.seed2 = OtherSeed(@)]
      [] wrong = "seed_commit1" -> [pubs EXCEPT !.seed_commit1 = OtherCommit(@)]
      [] wrong = "seed_commit2" -> [pubs EXCEPT !.seed_commit2 = OtherCommit(@)]
      [] wrong = "session_id" -> [pubs EXCEPT !.session_id = OtherSession(@)]
      [] OTHER -> pubs

Proofs == {"honest", "crafted", "junk"}

\* The winner the simulator gives on each triple of inputs.
SimWinners ==
    { << p, simulateFullGame(p.seed1, p.seed2, p.sessionId).winner >> : p \in ProveInputs }

SimWinner(seed1, seed2, sessionId) ==
    (CHOOSE x \in SimWinners :
        x[1] = [seed1 |-> seed1, seed2 |-> seed2, sessionId |-> sessionId])[2]

\* ---------------------------------------------------------------------------
\* One game played round by round on the same cards by the simulator's loop,
\* the prover's loop and the circuit's chain of GameRound components.  The
\* rules read a card through its type only, so the cards of a type are dealt
\* in ascending order: every deck is played through the deck with the same
\* sequence of types.
\* ---------------------------------------------------------------------------

\* The largest coin hash a game is finished with.
MaxCoin == 3
CoinHashes == 0 .. MaxCoin

\* c is the lowest card of its type that has not been dealt.
LowestOfType(c, dealt) ==
    /\ c \in Cards \ dealt
    /\ \A d \in Cards \ dealt : cardType(d) = cardType(c) => c <= d

GameStart ==
    [i |-> 0, dealt |-> {}, sim |-> SimStart, lastBlackSpot |-> FALSE,
     prf |-> ProofStart, cir |-> GameSimStart, fin |-> << >>]

\* The simulator's loop takes a round only while !gameOver.
GameSimStep(st, c1, c2) == IF st.gameOver THEN st ELSE SimRound(st, c1, c2).st

GameSimBlackSpot(g, c1, c2) ==
    IF g.sim.gameOver THEN g.lastBlackSpot ELSE SimRound(g.sim, c1, c2).round.blackSpot

\* The prover's loop takes a round only while !gameOver.
GameProofStep(st, c1, c2) == IF st.gameOver THEN st ELSE ProofRound(st, c1, c2).st

\* Round g.i on the cards c1, c2; the circuit computes every round.
GameDealt(g, c1, c2) ==
    [i |-> g.i + 1, dealt |-> g.dealt \cup {c1, c2},
     sim |-> GameSimStep(g.sim, c1, c2),
     lastBlackSpot |-> GameSimBlackSpot(g, c1, c2),
     prf |-> GameProofStep(g.prf, c1, c2),
     cir |-> GameRound(g.cir, c1, c2),
     fin |-> << >>]

\* After the last round: the three winners for the coin hash.
GameFinished(g, coinHash) ==
    [g EXCEPT !.fin = << [coinHash |-> coinHash,
                          sim |-> SimFinish(g.sim, g.lastBlackSpot, coinHash),
                          prf |-> ProofFinish(g.prf, coinHash),
                          cir |-> GameSimFinish(g.cir, coinHash % 2)] >>]

\* ---------------------------------------------------------------------------
\* Deck derivation on weights of any kind.
\* ---------------------------------------------------------------------------

MaxCoef == 3
MaxModulus == 6

\* 25 weights: a quadratic residue pattern below the truncation bound, with
\* a part above it when high = 1.
WeightAssignment(a, b, m, high) ==
    Materialize([k \in 1 .. N_CARDS |->
        ((a * k * k + b * k) % m) + high * ((k * k) % 3) * TwoT])

WeightAssignments ==
    { WeightAssignment(a, b, m, high) :
          a \in 0 .. MaxCoef, b \in 0 .. MaxCoef,
          m \in (1 .. MaxModulus) \cup {TwoT}, high \in 0 .. 1 }

VARIABLES pin, simOut, proofOut, proven, sessions, lastCall, game, weightsIn, decksOut,
          gameSettle, gameBoard, relayRoom, serialized, signals, waitingRoom, gameLobby

vars == << pin, simOut, proofOut, proven, sessions, lastCall, game, weightsIn, decksOut,
          gameSettle, gameBoard, relayRoom, serialized, signals, waitingRoom, gameLobby >>

proveVars == << pin, simOut, proofOut, proven >>
chainVars == << sessions, lastCall >>
deckVars == << weightsIn, decksOut >>
uiVars == << gameSettle, gameBoard, relayRoom, serialized, signals, waitingRoom, gameLobby >>

NoCall == [op |-> "none", sid |-> 0, args |-> << >>, result |-> "none"]

ProveIdle ==
    /\ pin = << >>
    /\ simOut = << >>
    /\ proofOut = << >>
    /\ proven = {}

ChainIdle ==
    /\ sessions = << >>
    /\ lastCall = NoCall

GameIdle == game = << >>

\* No component is mounted.
UiIdle ==
    /\ gameSettle = << >>
    /\ gameBoard = << >>
    /\ relayRoom = << >>
    /\ serialized = << >>
    /\ signals = << >>
    /\ waitingRoom = << >>
    /\ gameLobby = << >>

DeckIdle ==
    /\ weightsIn = << >>
    /\ decksOut = << >>

\* ---------------------------------------------------------------------------
\* The simulator, the witness generator and the proving system on one triple
\* of inputs.
\* ---------------------------------------------------------------------------

InitProve ==
    /\ pin \in ProveInputs
    /\ simOut = << >>
    /\ proofOut = << >>
    /\ proven = {}
    /\ ChainIdle /\ GameIdle /\ DeckIdle /\ UiIdle

\* The board runs the simulator on the two seeds and the session id.
RunSimulate ==
    /\ simOut = << >>
    /\ simOut' = << simulateFullGame(pin.seed1, pin.seed2, pin.sessionId) >>
    /\ UNCHANGED << pin, proofOut, proven, chainVars, game, deckVars, uiVars >>

\* A client runs the witness generator and prover.
RunGenerateProof ==
    /\ proofOut = << >>
    /\ proofOut' = << generateProof(pin.seed1, pin.seed2, pin.sessionId) >>
    /\ proven' = IF proofOut'[1].ok
                 THEN proven \cup { << "honest", proofOut'[1].winner >> }
                 ELSE proven
    /\ UNCHANGED << pin, simOut, chainVars, game, deckVars, uiVars >>

\* A prover runs the proving system on a circuit input of its own making; a
\* proof comes out exactly when the constraints accept the input.
ProveWith(kw) ==
    /\ kw \in ProvableOn(pin)
    /\ Cardinality(proven) < 2
    /\ proven' = proven \cup { kw }
    /\ UNCHANGED << pin, simOut, proofOut, chainVars, game, deckVars, uiVars >>

NextProve ==
    \/ RunSimulate
    \/ RunGenerateProof
    \/ \E kw \in {"coin", "alias", "swap", "subst"} \X {1, 2} : ProveWith(kw)

SpecProve == InitProve /\ [][NextProve]_vars

\* ---------------------------------------------------------------------------
\* A game dealt round by round.
\* ---------------------------------------------------------------------------

InitGame ==
    /\ game = GameStart
    /\ ProveIdle /\ ChainIdle /\ DeckIdle /\ UiIdle

Deal(c1, c2) ==
    /\ game.fin = << >>
    /\ game.i < NRounds
    /\ LowestOfType(c1, game.dealt)
    /\ LowestOfType(c2, game.dealt \cup {c1})
    /\ game' = GameDealt(game, c1, c2)
    /\ UNCHANGED << proveVars, chainVars, deckVars, uiVars >>

Finish(coinHash) ==
    /\ game.fin = << >>
    /\ game.i = NRounds
    /\ game' = GameFinished(game, coinHash)
    /\ UNCHANGED << proveVars, chainVars, deckVars, uiVars >>

NextGame ==
    \/ \E c1, c2 \in Cards : Deal(c1, c2)
    \/ \E coinHash \in CoinHashes : Finish(coinHash)

SpecGame == InitGame /\ [][NextGame]_vars

\* ---------------------------------------------------------------------------
\* Deck derivation applied to an assignment of weights.
\* ---------------------------------------------------------------------------

InitDeck ==
    /\ weightsIn \in WeightAssignments
    /\ decksOut = [sim |-> << >>, prf |-> << >>]
    /\ ProveIdle /\ ChainIdle /\ GameIdle /\ UiIdle

DeriveSimDeck ==
    /\ decksOut.sim = << >>
    /\ decksOut' = [decksOut EXCEPT !.sim = SimDeckOf(weightsIn)]
    /\ UNCHANGED << weightsIn, proveVars, chainVars, game, uiVars >>

DeriveProofDeck ==
    /\ decksOut.prf = << >>
    /\ decksOut' = [decksOut EXCEPT !.prf = ProofDeckOf(weightsIn)]
    /\ UNCHANGED << weightsIn, proveVars, chainVars, game, uiVars >>

NextDeck == DeriveSimDeck \/ DeriveProofDeck

SpecDeck == InitDeck /\ [][NextDeck]_vars

\* ---------------------------------------------------------------------------
\* Transactions on the session store; each is atomic under the chain's order.
\* ---------------------------------------------------------------------------

Init ==
    /\ ProveIdle /\ ChainIdle /\ GameIdle /\ DeckIdle /\ UiIdle

Called(op, sid, args, result) ==
    lastCall' = [op |-> op, sid |-> sid, args |-> args, result |-> result]

\* A create that overwrites the session stored under the id.
create_game_overwriting(sid, player1, commit1) ==
    /\ DOMAIN sessions \subseteq {sid}
    /\ sessions' = [s \in DOMAIN sessions \cup {sid} |-> NewSession(player1, commit1)]
    /\ Called("create_game", sid, [player1 |-> player1, commit1 |-> commit1], "Ok")
    /\ UNCHANGED << proveVars, game, deckVars, uiVars >>

create_game(sid, player1, commit1) ==
    /\ DOMAIN sessions \subseteq {sid}
    /\ sessions' = IF sid \in DOMAIN sessions
                   THEN sessions
                   ELSE sessions @@ (sid :> NewSession(player1, commit1))
    /\ Called("create_game", sid, [player1 |-> player1, commit1 |-> commit1],
              IF sid \in DOMAIN sessions THEN "SessionExists" ELSE "Ok")
    /\ UNCHANGED << proveVars, game, deckVars, uiVars >>

join_game(sid, player2, commit2) ==
    /\ sid \in DOMAIN sessions
    /\ sessions' = IF JoinResult(sessions[sid], player2) = "Ok"
                   THEN [sessions EXCEPT ![sid] = Joined(@, player2, commit2)]
                   ELSE sessions
    /\ Called("join_game", sid, [player2 |-> player2, commit2 |-> commit2],
              JoinResult(sessions[sid], player2))
    /\ UNCHANGED << proveVars, game, deckVars, uiVars >>

reveal_seed(sid, who, seed) ==
    /\ sid \in DOMAIN sessions
    /\ sessions' = IF RevealResult(sessions[sid], who, seed) = "Ok"
                   THEN [sessions EXCEPT ![sid] = Revealed(@, who, seed)]
                   ELSE sessions
    /\ Called("reveal_seed", sid, [who |-> who, seed |-> seed],
              RevealResult(sessions[sid], who, seed))
    /\ UNCHANGED << proveVars, game, deckVars, uiVars >>

settle_game(sid, proof, pubs) ==
    /\ sid \in DOMAIN sessions
    /\ sessions' = IF SettleResult(sessions[sid], sid, proof, pubs) = "Ok"
                   THEN [sessions EXCEPT ![sid] = Settled(@, pubs)]
                   ELSE sessions
    /\ Called("settle_game", sid, [proof |-> proof, pubs |-> pubs],
              SettleResult(sessions[sid], sid, proof, pubs))
    /\ UNCHANGED << proveVars, game, deckVars, uiVars >>

\* get_game is a read-only simulation: it returns the stored record.
get_game(sid) ==
    /\ sid \in DOMAIN sessions
    /\ Called("get_game", sid, << >>, "Ok")
    /\ UNCHANGED << sessions, proveVars, game, deckVars, uiVars >>

Next ==
    \/ \E sid \in SessionIds, player1 \in Addresses, commit1 \in Commits :
           create_game(sid, player1, commit1)
    \/ \E sid \in SessionIds, player2 \in Addresses, commit2 \in Commits :
           join_game(sid, player2, commit2)
    \/ \E sid \in SessionIds, who \in Addresses, seed \in Seeds :
           reveal_seed(sid, who, seed)
    \/ \E sid \in DOMAIN sessions, proof \in Proofs, winner \in 0 .. 2, wrong \in WrongFields :
           settle_game(sid, proof,
                       SubmittedInputs(StoredInputs(sessions[sid], sid, winner), wrong))
    \/ \E sid \in SessionIds : get_game(sid)

Spec == Init /\ [][Next]_vars


\* ---------------------------------------------------------------------------
\* GameSettle (the version with pollSettlement and submitProof) on one
\* session, with submitTx and getGameParsed of soroban.js.  An await is a
\* step boundary; a state update, the render after it and the effects of that
\* render are part of the step that made the update.
\* ---------------------------------------------------------------------------

\* The session GameSettle is mounted on: WaitingRoom calls onReady only when
\* both seeds read as revealed and the phase is at least Revealed.
RevealedSession(seed1, seed2) ==
    Revealed(Revealed(Joined(NewSession("GA", computeSeedCommitment(seed1)),
                             "GB", computeSeedCommitment(seed2)),
                      "GA", seed1),
             "GB", seed2)

\* gameState as App hands it over: the player's own seed, and the opponent's
\* seed as read from the chain, or none (0n is falsy in !oppSeed).
GameStateOf(sid, session, playerRole, known) ==
    [sessionId |-> sid,
     seed |-> IF playerRole = 1 THEN session.seed1 ELSE session.seed2,
     playerRole |-> playerRole,
     opponentSeed |-> IF ~known THEN 0
                      ELSE IF playerRole = 1 THEN session.seed2 ELSE session.seed1]

\* useState / useRef initial values and the mount effect that starts the
\* poll interval.  tx is the transaction submitTx is polling for, timers the
\* winners held by pending setTimeout callbacks, onSettled the winners the
\* component has passed to onSettled, calls the number of onSettled calls.
SettleMounted(gameState) ==
    [gameState |-> gameState, mounted |-> TRUE, stage |-> "ready",
     proofData |-> << >>, settledRef |-> FALSE, pollRef |-> TRUE,
     pc |-> "idle", proving |-> << >>, tx |-> "none",
     timers |-> {}, onSettled |-> {}, calls |-> 0]

\* handleGenerateProof: const seed1 = playerRole === 1 ? seed : oppSeed ...
ProofSeeds(gameState, oppSeed) ==
    IF gameState.playerRole = 1
    THEN << gameState.seed, oppSeed >>
    ELSE << oppSeed, gameState.seed >>

\* A client that reports its own proof's winner after losing the race.
RaceWinnerOwn(read, pd) == pd.winner

\* submitProof, catch block and pollSettlement: the winner passed to
\* onSettled is the one just read from the chain (game.winner).
RaceWinner(read, pd) == read.winner

\* getGameParsed: seed1Revealed: !isZero(native.seed1), where isZero(buf) is
\* new Uint8Array(buf).every((b) => b === 0).
seedRevealed(buf) == buf # ZeroSentinel

\* getGameParsed: the stored record, or null when the read fails.
getGameParsed(store, sid, readOk) ==
    IF readOk /\ sid \in DOMAIN store THEN << store[sid] >> ELSE << >>

\* if (game && game.winner !== 0) { settledRef.current = true;
\*   clearInterval(pollRef.current); setStage("settled_by_opponent");
\*   setTimeout(() => onSettled({ winner: game.winner, ... }), 3000) }
SettledByOpponent(gs, read, pd) ==
    [gs EXCEPT !.settledRef = TRUE, !.pollRef = FALSE,
               !.stage = "settled_by_opponent",
               !.timers = @ \cup {RaceWinner(read, pd)}]

\* onSettled(...) in App: setResult, setStage(RESULT); GameSettle unmounts and
\* its effect cleanup clears the poll interval.
OnSettledCalled(gs, winner) ==
    [gs EXCEPT !.onSettled = @ \cup {winner}, !.calls = @ + 1,
               !.mounted = FALSE, !.pollRef = FALSE]

InitSettle ==
    /\ \E seed1, seed2 \in Seeds \ {ZeroSentinel}, sid \in SessionIds,
          playerRole \in {1, 2}, known \in BOOLEAN :
          /\ sessions = (sid :> RevealedSession(seed1, seed2))
          /\ gameSettle = SettleMounted(GameStateOf(sid, sessions[sid], playerRole, known))
    /\ lastCall = NoCall
    /\ gameBoard = << >>
    /\ relayRoom = << >>
    /\ serialized = << >>
    /\ waitingRoom = << >>
    /\ gameLobby = << >>
    /\ signals = << >>
    /\ ProveIdle /\ GameIdle /\ DeckIdle

\* handleGenerateProof up to the await of generateProof: by the mount effect
\* when the opponent's seed is known, by the button otherwise (the seed then
\* comes from the prompt), or by "Try Again" when there is no proof yet.
handleGenerateProof(entered) ==
    /\ gameSettle.mounted
    /\ gameSettle.pc = "idle"
    /\ \/ gameSettle.stage = "ready"
       \/ gameSettle.stage = "error" /\ gameSettle.proofData = << >>
    /\ gameSettle.gameState.opponentSeed # 0 => entered = gameSettle.gameState.opponentSeed
    /\ gameSettle' = [gameSettle EXCEPT !.stage = "proving", !.pc = "proving",
                          !.proving = ProofSeeds(gameSettle.gameState, entered)]
    /\ UNCHANGED << proveVars, chainVars, game, deckVars, gameBoard, relayRoom, serialized, signals, waitingRoom, gameLobby >>

\* generateProof returns: setProofData(result), then submitProof(result) up to
\* the await of settleGame; the render on the new proofData restarts the poll
\* interval.  When generateProof throws: setStage("error").
ProofGenerated ==
    /\ gameSettle.pc = "proving"
    /\ LET result == generateProof(gameSettle.proving[1], gameSettle.proving[2],
                                   gameSettle.gameState.sessionId)
       IN  gameSettle' =
             IF result.ok
             THEN [gameSettle EXCEPT
                      !.proofData = << [publicInputs |-> result.publicInputs,
                                        winner |-> result.winner] >>,
                      !.pollRef = gameSettle.mounted,
                      !.stage = "settling", !.pc = "prepare", !.proving = << >>]
             ELSE [gameSettle EXCEPT !.stage = "error", !.pc = "idle",
                                     !.proving = << >>]
    /\ UNCHANGED << proveVars, chainVars, game, deckVars, gameBoard, relayRoom, serialized, signals, waitingRoom, gameLobby >>

\* "Try Again" with a proof at hand: submitProof() up to the await.
submitProof ==
    /\ gameSettle.mounted
    /\ gameSettle.pc = "idle"
    /\ gameSettle.stage = "error"
    /\ gameSettle.proofData # << >>
    /\ gameSettle' = [gameSettle EXCEPT !.stage = "settling", !.pc = "prepare"]
    /\ UNCHANGED << proveVars, chainVars, game, deckVars, gameBoard, relayRoom, serialized, signals, waitingRoom, gameLobby >>

\* submitTx up to sendTransaction.  prepareTransaction simulates the call on
\* the chain's current state and throws when the contract refuses it; a send
\* that is not PENDING returns { success: false, error: "Send failed: ..." },
\* which submitProof throws on (the text names no contract error).
submitTx(sendOk) ==
    /\ gameSettle.pc = "prepare"
    /\ LET sid == gameSettle.gameState.sessionId
           refused == SettleResult(sessions[sid], sid, "honest",
                                   gameSettle.proofData[1].publicInputs) # "Ok"
       IN  gameSettle' =
             IF refused \/ ~sendOk
             THEN [gameSettle EXCEPT !.pc = "catch"]
             ELSE [gameSettle EXCEPT !.pc = "pending", !.tx = "queued"]
    /\ UNCHANGED << proveVars, chainVars, game, deckVars, gameBoard, relayRoom, serialized, signals, waitingRoom, gameLobby >>

\* The chain includes the client's transaction: settle_game on the state the
\* chain has by then.
TxIncluded ==
    /\ gameSettle.tx = "queued"
    /\ LET sid == gameSettle.gameState.sessionId
           pubs == gameSettle.proofData[1].publicInputs
           result == SettleResult(sessions[sid], sid, "honest", pubs)
       IN  /\ sessions' = IF result = "Ok"
                          THEN [sessions EXCEPT ![sid] = Settled(@, pubs)]
                          ELSE sessions
           /\ Called("settle_game", sid, [proof |-> "honest", pubs |-> pubs], result)
           /\ gameSettle' = [gameSettle EXCEPT
                                !.tx = IF result = "Ok" THEN "SUCCESS" ELSE "FAILED"]
    /\ UNCHANGED << proveVars, game, deckVars, gameBoard, relayRoom, serialized, signals, waitingRoom, gameLobby >>

\* submitTx's poll loop ends and submitProof goes on: on SUCCESS
\* settledRef.current = true, clearInterval, onSettled({ winner: pd.winner });
\* on FAILED, or when the 30 polls run out with the transaction not found
\* (it is then left to the chain as anybody's settle), { success: false }
\* with a text that names no contract error, which submitProof throws on.
TxPolled ==
    /\ gameSettle.pc = "pending"
    /\ gameSettle' =
         IF gameSettle.tx = "SUCCESS"
         THEN OnSettledCalled([gameSettle EXCEPT !.settledRef = TRUE, !.pc = "idle",
                                                 !.tx = "none"],
                              gameSettle.proofData[1].winner)
         ELSE [gameSettle EXCEPT !.pc = "catch", !.tx = "none"]
    /\ UNCHANGED << proveVars, chainVars, game, deckVars, gameBoard, relayRoom, serialized, signals, waitingRoom, gameLobby >>

\* submitProof's catch block: re-read the session; a stored winner is
\* reported through the 3 s timer, anything else ends in stage "error".
submitProofCatch(readOk) ==
    /\ gameSettle.pc = "catch"
    /\ LET read == getGameParsed(sessions, gameSettle.gameState.sessionId, readOk)
       IN  gameSettle' =
             IF read # << >> /\ read[1].winner # 0
             THEN [SettledByOpponent(gameSettle, read[1], gameSettle.proofData[1])
                      EXCEPT !.pc = "idle"]
             ELSE [gameSettle EXCEPT !.stage = "error", !.pc = "idle"]
    /\ UNCHANGED << proveVars, chainVars, game, deckVars, gameBoard, relayRoom, serialized, signals, waitingRoom, gameLobby >>

\* pollSettlement on an interval tick: nothing when settledRef is set, the
\* read fails or no winner is stored.
pollSettlement(readOk) ==
    /\ gameSettle.pollRef
    /\ ~gameSettle.settledRef
    /\ LET read == getGameParsed(sessions, gameSettle.gameState.sessionId, readOk)
       IN  /\ read # << >>
           /\ read[1].winner # 0
           /\ gameSettle' = SettledByOpponent(gameSettle, read[1],
                                IF gameSettle.proofData = << >>
                                THEN [winner |-> 0] ELSE gameSettle.proofData[1])
    /\ UNCHANGED << proveVars, chainVars, game, deckVars, gameBoard, relayRoom, serialized, signals, waitingRoom, gameLobby >>

\* A 3 s timer set by SettledByOpponent fires: onSettled({ winner: game.winner }).
SettledTimeout(winner) ==
    /\ winner \in gameSettle.timers
    /\ gameSettle' = OnSettledCalled([gameSettle EXCEPT !.timers = @ \ {winner}], winner)
    /\ UNCHANGED << proveVars, chainVars, game, deckVars, gameBoard, relayRoom, serialized, signals, waitingRoom, gameLobby >>

\* The opponent, or anybody, settles the session with a proof of their own.
NextSettle ==
    \/ \E entered \in Seeds : handleGenerateProof(entered)
    \/ ProofGenerated
    \/ submitProof
    \/ \E sendOk \in BOOLEAN : submitTx(sendOk)
    \/ TxIncluded
    \/ TxPolled
    \/ \E readOk \in BOOLEAN : submitProofCatch(readOk)
    \/ \E readOk \in BOOLEAN : pollSettlement(readOk)
    \/ \E winner \in {1, 2} : SettledTimeout(winner)
    \/ \E sid \in DOMAIN sessions, proof \in {"honest", "crafted"}, winner \in {1, 2} :
           settle_game(sid, proof, StoredInputs(sessions[sid], sid, winner))

SpecSettle == InitSettle /\ [][NextSettle]_vars

\* ---------------------------------------------------------------------------
\* GameBoard (the version with the relay) and the relay socket of
\* connectRelay.  A state update, the render after it and the effects of that
\* render are one step; the socket's readyState is no React state, so its
\* changes cause no render.
\* ---------------------------------------------------------------------------

\* The largest round index the board is followed to ("Next Round" is offered
\* for as long as the round shown is not the game's last).
MaxRoundIndex == 12

ReadyStates == {"CONNECTING", "OPEN", "CLOSED"}

\* A board that takes the relay for connected whenever there is a socket.
RelayConnectedIfPresent(readyState) == readyState \in ReadyStates

\* const relayConnected = relay?.socket?.readyState === WebSocket.OPEN
RelayConnected(readyState) == readyState = "OPEN"

\* useState initial values; game is null until simulateFullGame resolves.
BoardMounted(seed1, seed2, sessionId, readyState) ==
    [seeds |-> << seed1, seed2, sessionId >>, mounted |-> TRUE,
     rounds |-> << >>, loaded |-> FALSE,
     roundIndex |-> 0, myDrawn |-> FALSE, oppDrawn |-> FALSE,
     relayConnected |-> RelayConnected(readyState), fallbackTimer |-> FALSE,
     readyState |-> readyState, relayed |-> FALSE]

\* game.rounds[roundIndex]?.gameOver
RoundGameOver(b) ==
    /\ b.roundIndex + 1 \in 1 .. Len(b.rounds)
    /\ b.rounds[b.roundIndex + 1]

\* const gameFinished = bothDrawn && round?.gameOver
GameFinishedOnBoard(b) == b.myDrawn /\ b.oppDrawn /\ RoundGameOver(b)

\* The dependencies of the fallback effect:
\* [myDrawn, oppDrawn, relayConnected, roundIndex, game]
FallbackDeps(b) ==
    << b.myDrawn, b.oppDrawn, b.relayConnected, b.roundIndex, b.loaded >>

\* The states of the component: a render happens when one of them changes.
BoardState(b) == << b.loaded, b.roundIndex, b.myDrawn, b.oppDrawn >>

\* The render with the new state and the fallback effect: when a dependency
\* changed the cleanup clears the timer, and the effect sets it again if
\* myDrawn && !oppDrawn && !relayConnected.
FallbackEffect(old, new) ==
    IF FallbackDeps(new) = FallbackDeps(old) THEN new
    ELSE [new EXCEPT !.fallbackTimer = new.myDrawn /\ ~new.oppDrawn /\ ~new.relayConnected]

Rendered(old, new) ==
    IF BoardState(new) = BoardState(old) THEN new
    ELSE FallbackEffect(old, [new EXCEPT !.relayConnected = RelayConnected(new.readyState)])

\* setRoundIndex((i) => i + 1); setMyDrawn(false); setOppDrawn(false)
NextRoundSet(b) ==
    [b EXCEPT !.roundIndex = @ + 1, !.myDrawn = FALSE, !.oppDrawn = FALSE]

\* handleRelayMessage(data) for DRAW (and a DRAW replayed from a
\* STATE_SNAPSHOT) and NEXT_ROUND.
RelayMessages ==
    [type : {"DRAW"}, round : 0 .. MaxRoundIndex] \cup { [type |-> "NEXT_ROUND", round |-> 0] }

RelayHandled(b, data) ==
    IF data.type = "DRAW"
    THEN IF data.round = b.roundIndex THEN [b EXCEPT !.oppDrawn = TRUE] ELSE b
    ELSE NextRoundSet(b)

InitBoard ==
    /\ \E seed1, seed2 \in Seeds \ {ZeroSentinel}, sessionId \in SessionIds,
          readyState \in ReadyStates :
          gameBoard = BoardMounted(seed1, seed2, sessionId, readyState)
    /\ gameSettle = << >>
    /\ relayRoom = << >>
    /\ serialized = << >>
    /\ waitingRoom = << >>
    /\ gameLobby = << >>
    /\ signals = << >>
    /\ ProveIdle /\ ChainIdle /\ GameIdle /\ DeckIdle

\* simulateFullGame(seed1, seed2, BigInt(sessionId)).then(setGame)
GameLoaded ==
    /\ gameBoard.mounted
    /\ ~gameBoard.loaded
    /\ LET result == simulateFullGame(gameBoard.seeds[1], gameBoard.seeds[2],
                                      gameBoard.seeds[3])
       IN  gameBoard' = Rendered(gameBoard,
               [gameBoard EXCEPT !.loaded = TRUE,
                    !.rounds = Materialize([k \in 1 .. Len(result.rounds) |->
                                               result.rounds[k].gameOver])])
    /\ UNCHANGED << proveVars, chainVars, game, deckVars, gameSettle, relayRoom, serialized, signals, waitingRoom, gameLobby >>

\* "Draw Yer Card" (shown when !myDrawn): setMyDrawn(true); relay.send does
\* nothing unless the socket is open.
handleDrawYourCard ==
    /\ gameBoard.mounted
    /\ gameBoard.loaded
    /\ ~gameBoard.myDrawn
    /\ gameBoard' = Rendered(gameBoard, [gameBoard EXCEPT !.myDrawn = TRUE])
    /\ UNCHANGED << proveVars, chainVars, game, deckVars, gameSettle, relayRoom, serialized, signals, waitingRoom, gameLobby >>

\* "Next Round" (shown when bothDrawn && !gameFinished)
handleNextRound ==
    /\ gameBoard.mounted
    /\ gameBoard.loaded
    /\ gameBoard.myDrawn /\ gameBoard.oppDrawn
    /\ ~GameFinishedOnBoard(gameBoard)
    /\ gameBoard.roundIndex < MaxRoundIndex
    /\ gameBoard' = Rendered(gameBoard, NextRoundSet(gameBoard))
    /\ UNCHANGED << proveVars, chainVars, game, deckVars, gameSettle, relayRoom, serialized, signals, waitingRoom, gameLobby >>

\* The fallback timer fires: setOppDrawn(true)
FallbackTimeout ==
    /\ gameBoard.mounted
    /\ gameBoard.fallbackTimer
    /\ gameBoard' = Rendered(gameBoard,
                             [gameBoard EXCEPT !.fallbackTimer = FALSE, !.oppDrawn = TRUE])
    /\ UNCHANGED << proveVars, chainVars, game, deckVars, gameSettle, relayRoom, serialized, signals, waitingRoom, gameLobby >>

\* A message of the opponent comes in over the open socket.
handleRelayMessage(data) ==
    /\ gameBoard.mounted
    /\ gameBoard.loaded
    /\ gameBoard.readyState = "OPEN"
    /\ data.type = "NEXT_ROUND" => gameBoard.roundIndex < MaxRoundIndex
    /\ gameBoard' = Rendered(gameBoard,
                             [RelayHandled(gameBoard, data) EXCEPT !.relayed = TRUE])
    /\ UNCHANGED << proveVars, chainVars, game, deckVars, gameSettle, relayRoom, serialized, signals, waitingRoom, gameLobby >>

\* The socket connects, drops or reconnects.
SocketChanged(readyState) ==
    /\ gameBoard.mounted
    /\ readyState # gameBoard.readyState
    /\ gameBoard' = [gameBoard EXCEPT !.readyState = readyState]
    /\ UNCHANGED << proveVars, chainVars, game, deckVars, gameSettle, relayRoom, serialized, signals, waitingRoom, gameLobby >>

\* "Settle On-Chain" (shown when gameFinished): onGameComplete; App leaves
\* PLAYING, the board unmounts and the effect cleanup clears the timer.
handleSettle ==
    /\ gameBoard.mounted
    /\ GameFinishedOnBoard(gameBoard)
    /\ gameBoard' = [gameBoard EXCEPT !.mounted = FALSE, !.fallbackTimer = FALSE]
    /\ UNCHANGED << proveVars, chainVars, game, deckVars, gameSettle, relayRoom, serialized, signals, waitingRoom, gameLobby >>

NextBoard ==
    \/ GameLoaded
    \/ handleDrawYourCard
    \/ handleNextRound
    \/ FallbackTimeout
    \/ \E data \in RelayMessages : handleRelayMessage(data)
    \/ \E readyState \in ReadyStates : SocketChanged(readyState)
    \/ handleSettle

SpecBoard == InitBoard /\ [][NextBoard]_vars

\* A timer that has been set fires unless it is cleared first.
SpecBoardFair == SpecBoard /\ WF_vars(FallbackTimeout)

\* ---------------------------------------------------------------------------
\* Two GameBoards on one session, both sockets open.  What a client sends,
\* the relay passes on to the other client, where it waits to be handled.
\* ---------------------------------------------------------------------------

\* The two players' roles.
Roles == {1, 2}

\* The board of a player once simulateFullGame has resolved.
BoardLoaded(seed1, seed2, sessionId) ==
    LET result == simulateFullGame(seed1, seed2, sessionId)
    IN  [BoardMounted(seed1, seed2, sessionId, "OPEN") EXCEPT
            !.loaded = TRUE,
            !.rounds = Materialize([k \in 1 .. Len(result.rounds) |->
                                       result.rounds[k].gameOver])]

\* The opponent's role.
Opponent(playerRole) == 3 - playerRole

InitBoards ==
    /\ \E seed1, seed2 \in Seeds \ {ZeroSentinel} :
          gameBoard = [boards |-> [playerRole \in Roles |->
                                      BoardLoaded(seed1, seed2, MaxSessionId)],
                       inbox |-> [playerRole \in Roles |-> << >>]]
    /\ gameSettle = << >>
    /\ relayRoom = << >>
    /\ serialized = << >>
    /\ waitingRoom = << >>
    /\ gameLobby = << >>
    /\ signals = << >>
    /\ ProveIdle /\ ChainIdle /\ GameIdle /\ DeckIdle

\* handleDrawYourCard: setMyDrawn(true); relay.send({ type: "DRAW", round })
DrawPressed(playerRole) ==
    /\ ~gameBoard.boards[playerRole].myDrawn
    /\ gameBoard' = [gameBoard EXCEPT
           !.boards[playerRole] = Rendered(@, [@ EXCEPT !.myDrawn = TRUE]),
           !.inbox[Opponent(playerRole)] =
               Append(@, [type |-> "DRAW",
                          round |-> gameBoard.boards[playerRole].roundIndex])]
    /\ UNCHANGED << proveVars, chainVars, game, deckVars, gameSettle, relayRoom, serialized, signals, waitingRoom, gameLobby >>

\* handleNextRound: relay.send({ type: "NEXT_ROUND" }); setRoundIndex(i + 1);
\* setMyDrawn(false); setOppDrawn(false)
NextRoundPressed(playerRole) ==
    /\ gameBoard.boards[playerRole].myDrawn
    /\ gameBoard.boards[playerRole].oppDrawn
    /\ ~GameFinishedOnBoard(gameBoard.boards[playerRole])
    /\ gameBoard.boards[playerRole].roundIndex < MaxRoundIndex
    /\ gameBoard' = [gameBoard EXCEPT
           !.boards[playerRole] = Rendered(@, NextRoundSet(@)),
           !.inbox[Opponent(playerRole)] =
               Append(@, [type |-> "NEXT_ROUND", round |-> 0])]
    /\ UNCHANGED << proveVars, chainVars, game, deckVars, gameSettle, relayRoom, serialized, signals, waitingRoom, gameLobby >>

\* handleRelayMessage on the next message relayed to the client.
RelayDelivered(playerRole) ==
    /\ gameBoard.inbox[playerRole] # << >>
    /\ Head(gameBoard.inbox[playerRole]).type = "NEXT_ROUND" =>
           gameBoard.boards[playerRole].roundIndex < MaxRoundIndex
    /\ gameBoard' = [gameBoard EXCEPT
           !.boards[playerRole] =
               Rendered(@, RelayHandled(@, Head(gameBoard.inbox[playerRole]))),
           !.inbox[playerRole] = Tail(@)]
    /\ UNCHANGED << proveVars, chainVars, game, deckVars, gameSettle, relayRoom, serialized, signals, waitingRoom, gameLobby >>

NextBoards ==
    \/ \E playerRole \in Roles : DrawPressed(playerRole)
    \/ \E playerRole \in Roles : NextRoundPressed(playerRole)
    \/ \E playerRole \in Roles : RelayDelivered(playerRole)

SpecBoards == InitBoards /\ [][NextBoards]_vars

\* ---------------------------------------------------------------------------
\* One GameBoard played to its end without the relay: the player draws, the
\* fallback timer shows the opponent's card, the player presses Next Round.
\* ---------------------------------------------------------------------------

\* Decks (the sort of 25 hashes can come out in any order) whose games end in
\* each of the four ways: by score in round 3, by the Black Spot in round 1,
\* with the deck exhausted at 2 : 0, and level after twelve ties.
EndingDecks ==
    { << 0, 8, 1, 9, 2, 10, 3, 4, 5, 6, 7, 11, 12, 13, 14, 15,
         16, 17, 18, 19, 20, 21, 22, 23, 24 >>,
      << 24, 0, 1, 2, 3, 4, 5, 6, 7, 8, 9, 10, 11, 12, 13, 14, 15,
         16, 17, 18, 19, 20, 21, 22, 23 >>,
      << 0, 8, 1, 2, 3, 4, 5, 6, 9, 10, 11, 12, 13, 14,
         16, 17, 18, 19, 20, 21, 22, 23, 7, 15, 24 >>,
      << 0, 1, 2, 3, 4, 5, 6, 7, 8, 9, 10, 11, 12, 13, 14, 15,
         16, 17, 18, 19, 20, 21, 22, 23, 24 >> }

\* The board once setGame(result) has run, with the socket closed.
BoardWithGame(result) ==
    [endReason |-> result.endReason, winner |-> result.winner] @@
    [BoardMounted(0, 0, 0, "CLOSED") EXCEPT
        !.loaded = TRUE,
        !.rounds = Materialize([k \in 1 .. Len(result.rounds) |->
                                   result.rounds[k].gameOver])]

InitPlay ==
    /\ \E deck \in EndingDecks, coinHash \in CoinHashes :
          gameBoard = BoardWithGame(SimPlay(deck, coinHash))
    /\ gameSettle = << >>
    /\ relayRoom = << >>
    /\ serialized = << >>
    /\ waitingRoom = << >>
    /\ gameLobby = << >>
    /\ signals = << >>
    /\ ProveIdle /\ ChainIdle /\ GameIdle /\ DeckIdle

NextPlay ==
    \/ handleDrawYourCard
    \/ FallbackTimeout
    \/ handleNextRound
    \/ handleSettle

\* The player presses each button that is offered, and a timer that is set
\* fires.
SpecPlay ==
    /\ InitPlay /\ [][NextPlay]_vars
    /\ WF_vars(handleDrawYourCard) /\ WF_vars(FallbackTimeout) /\ WF_vars(handleNextRound)
\* ---------------------------------------------------------------------------
\* The relay server (one PartyKit room).  A handler runs to its end before the
\* next event of the room is delivered: the room's storage reads and writes
\* hold back further events while they are awaited, so onMessage, onConnect
\* and onClose are single steps.  Date.now() is the room's clock, in ticks.
\* ---------------------------------------------------------------------------

\* The event log's cap, the rate limiter's window (in ticks) and its cap,
\* scaled down from 100, 1000 ms and 10.
MAX_EVENTS == 3
RATE_LIMIT_WINDOW == 2
RATE_LIMIT_MAX == 2

\* The clock is followed up to MaxNow, a room up to MaxMessages messages.
MaxNow == 4
MaxMessages == 5

\* The room holds two players (a third connection is closed on arrival).
ConnIds == {"p1", "p2"}

\* What onMessage distinguishes in a message: longer than MAX_MESSAGE_SIZE,
\* not JSON, a STATE_REQUEST, a MATCHED, or any other game event.
MessageKinds == {"OVERSIZE", "MALFORMED", "STATE_REQUEST", "MATCHED", "EVENT"}

\* A log that keeps its oldest entries once it is full.
KeepOldest(events) ==
    IF Len(events) > MAX_EVENTS THEN SubSeq(events, 1, MAX_EVENTS) ELSE events

\* if (events.length > MAX_EVENTS) events = events.slice(-MAX_EVENTS)
KeepNewest(events) ==
    IF Len(events) > MAX_EVENTS
    THEN SubSeq(events, Len(events) - MAX_EVENTS + 1, Len(events))
    ELSE events

\* checkRateLimit(connectionId): state is << >> for a connection without an
\* entry in rateLimits, else a one-element sequence holding the entry.
checkRateLimit(state, now) ==
    IF state = << >> \/ now - state[1].windowStart > RATE_LIMIT_WINDOW
    THEN [ok |-> TRUE, state |-> << [count |-> 1, windowStart |-> now] >>]
    ELSE [ok |-> state[1].count + 1 <= RATE_LIMIT_MAX,
          state |-> << [count |-> state[1].count + 1,
                        windowStart |-> state[1].windowStart] >>]

\* new RelayServer(room): no connection, no rate-limit entry, storage without
\* "events" (read as []).  stored lists what was put into the log since it
\* was last emptied, relayed the times at which a connection's messages were
\* stored or broadcast, sent counts the room's messages (a message's number
\* stands for its text).
RoomOpened ==
    [connections |-> {}, rateLimits |-> [c \in ConnIds |-> << >>],
     events |-> << >>, now |-> 0,
     stored |-> << >>, relayed |-> [c \in ConnIds |-> << >>],
     sent |-> 0, dropped |-> 0]

\* onMessage(message, sender), after the rate limiter let the message pass.
Handled(room, sender, kind, raw) ==
    CASE kind \in {"MALFORMED", "STATE_REQUEST"} -> room
      [] kind = "MATCHED" ->
            [room EXCEPT !.events = << >>, !.stored = << >>,
                         !.relayed[sender] = Append(@, room.now)]
      [] OTHER ->
            [room EXCEPT !.events = KeepNewest(Append(room.events, raw)),
                         !.stored = Append(@, raw),
                         !.relayed[sender] = Append(@, room.now)]

InitRelay ==
    /\ relayRoom = RoomOpened
    /\ gameSettle = << >>
    /\ gameBoard = << >>
    /\ serialized = << >>
    /\ waitingRoom = << >>
    /\ gameLobby = << >>
    /\ signals = << >>
    /\ ProveIdle /\ ChainIdle /\ GameIdle /\ DeckIdle

\* Date.now() grows between two events of the room.
ClockTick ==
    /\ relayRoom.now < MaxNow
    /\ relayRoom' = [relayRoom EXCEPT !.now = @ + 1]
    /\ UNCHANGED << proveVars, chainVars, game, deckVars, gameSettle, gameBoard, serialized, signals, waitingRoom, gameLobby >>

\* onConnect(connection, ctx)
onConnect(connection) ==
    /\ connection \notin relayRoom.connections
    /\ relayRoom' = [relayRoom EXCEPT !.connections = @ \cup {connection}]
    /\ UNCHANGED << proveVars, chainVars, game, deckVars, gameSettle, gameBoard, serialized, signals, waitingRoom, gameLobby >>

\* onMessage(message, sender)
onMessage(sender, kind) ==
    /\ sender \in relayRoom.connections
    /\ relayRoom.sent < MaxMessages
    /\ LET raw    == relayRoom.sent + 1
           room   == [relayRoom EXCEPT !.sent = raw]
           limit  == checkRateLimit(relayRoom.rateLimits[sender], relayRoom.now)
           passed == [room EXCEPT !.rateLimits[sender] = limit.state]
       IN  relayRoom' =
               IF kind = "OVERSIZE" THEN room
               ELSE IF ~limit.ok THEN [passed EXCEPT !.dropped = raw]
               ELSE Handled(passed, sender, kind, raw)
    /\ UNCHANGED << proveVars, chainVars, game, deckVars, gameSettle, gameBoard, serialized, signals, waitingRoom, gameLobby >>

\* onClose(connection): the connection's rate-limit entry goes, and the log
\* with the last connection.
onClose(connection) ==
    /\ connection \in relayRoom.connections
    /\ LET remaining == relayRoom.connections \ {connection}
           left == [relayRoom EXCEPT !.connections = remaining,
                                     !.rateLimits[connection] = << >>,
                                     !.relayed[connection] = << >>]
       IN  relayRoom' = IF remaining = {}
                        THEN [left EXCEPT !.events = << >>, !.stored = << >>]
                        ELSE left
    /\ UNCHANGED << proveVars, chainVars, game, deckVars, gameSettle, gameBoard, serialized, signals, waitingRoom, gameLobby >>

NextRelay ==
    \/ ClockTick
    \/ \E connection \in ConnIds : onConnect(connection)
    \/ \E sender \in ConnIds, kind \in MessageKinds : onMessage(sender, kind)
    \/ \E connection \in ConnIds : onClose(connection)

SpecRelay == InitRelay /\ [][NextRelay]_vars

\* ---------------------------------------------------------------------------
\* Admission to a room: onConnect's size check and onClose, with three
\* clients.  A connection is among room.getConnections() from its onConnect
\* to its onClose; onClose runs for every connection that closes, whoever
\* closed it.
\* ---------------------------------------------------------------------------

\* const MAX_ROOM_SIZE = 2
MAX_ROOM_SIZE == 2

Clients == {"p1", "p2", "p3"}

\* A room nobody has connected to.  status is each client's connection
\* ("new", "admitted", "rejected", "closed"), rejected the connections turned
\* away, broadcast the PLAYER_JOINED / PLAYER_LEFT messages sent, clearedBy
\* the connections whose onClose emptied a log that held events.
RoomEmpty ==
    [status |-> [c \in Clients |-> "new"], rejected |-> {},
     events |-> << >>, broadcast |-> << >>, clearedBy |-> {}]

\* [...this.room.getConnections()]
getConnections(room) == { c \in Clients : room.status[c] \in {"admitted", "rejected"} }

\* onConnect(connection, ctx): the new connection counts among the room's.
Connected(room, connection) ==
    LET present == getConnections(room) \cup {connection}
    IN  IF Cardinality(present) > MAX_ROOM_SIZE
        THEN [room EXCEPT !.status[connection] = "rejected",
                          !.rejected = @ \cup {connection}]
        ELSE [room EXCEPT !.status[connection] = "admitted",
                          !.broadcast = Append(@, [type |-> "PLAYER_JOINED",
                                                   connectionId |-> connection])]

\* onClose(connection)
onCloseAny(room, connection) ==
    LET remaining == getConnections(room) \ {connection}
        gone == [room EXCEPT !.status[connection] = "closed"]
        kept == IF remaining = {}
                THEN [gone EXCEPT !.events = << >>,
                                  !.clearedBy = IF room.events # << >>
                                                THEN @ \cup {connection} ELSE @]
                ELSE gone
    IN  [kept EXCEPT !.broadcast =
            Append(@, [type |-> "PLAYER_LEFT", connectionId |-> connection])]

InitRoom ==
    /\ relayRoom = RoomEmpty
    /\ gameSettle = << >>
    /\ gameBoard = << >>
    /\ serialized = << >>
    /\ waitingRoom = << >>
    /\ gameLobby = << >>
    /\ signals = << >>
    /\ ProveIdle /\ ChainIdle /\ GameIdle /\ DeckIdle

\* A client's socket reaches the room.
ClientConnects(connection) ==
    /\ relayRoom.status[connection] = "new"
    /\ relayRoom' = Connected(relayRoom, connection)
    /\ UNCHANGED << proveVars, chainVars, game, deckVars, gameSettle, gameBoard, serialized, signals, waitingRoom, gameLobby >>

\* An admitted client sends a game event, which onMessage stores.
ClientSends(connection) ==
    /\ relayRoom.status[connection] = "admitted"
    /\ Len(relayRoom.events) < MAX_EVENTS
    /\ relayRoom' = [relayRoom EXCEPT !.events = KeepNewest(Append(@, connection))]
    /\ UNCHANGED << proveVars, chainVars, game, deckVars, gameSettle, gameBoard, serialized, signals, waitingRoom, gameLobby >>

\* A connection closes (the client went away, or connection.close() of the
\* size check took effect) and the room's onClose runs.
ConnectionCloses(connection) ==
    /\ connection \in getConnections(relayRoom)
    /\ relayRoom' = onCloseAny(relayRoom, connection)
    /\ UNCHANGED << proveVars, chainVars, game, deckVars, gameSettle, gameBoard, serialized, signals, waitingRoom, gameLobby >>

NextRoom ==
    \/ \E connection \in Clients : ClientConnects(connection)
    \/ \E connection \in Clients : ClientSends(connection)
    \/ \E connection \in Clients : ConnectionCloses(connection)

SpecRoom == InitRoom /\ [][NextRoom]_vars

\* ---------------------------------------------------------------------------
\* The three serializers of a proof's pi_b: prove.js, the browser prover
\* (soroban.js) and the test prover (prover-test.js).  A string is the
\* sequence of its characters.
\* ---------------------------------------------------------------------------

\* padStart(64, "0") and the coordBytes of prove.js's calls.
HexChars == 64
CoordBytes == 32

\* The largest coordinate tried.
MaxCoord == 74565

G2Coords == {0, 1, 255, 256, 4660, MaxCoord}

\* snarkjs's pi_b: [[x_c0, x_c1], [y_c0, y_c1], ...]
G2Points == (G2Coords \X G2Coords) \X (G2Coords \X G2Coords)

HexDigits == << "0", "1", "2", "3", "4", "5", "6", "7",
                "8", "9", "a", "b", "c", "d", "e", "f" >>

\* BigInt.prototype.toString(16)
RECURSIVE toString16(_)
toString16(n) ==
    IF n < 16 THEN << HexDigits[n + 1] >>
    ELSE Append(toString16(n \div 16), HexDigits[(n % 16) + 1])

\* String.prototype.padStart(targetLength, "0")
padStart(str, targetLength) ==
    IF Len(str) >= targetLength THEN str
    ELSE [k \in 1 .. targetLength - Len(str) |-> "0"] \o str

\* bigintToHex(s, byteLen) of prove.js
bigintToHex(s, byteLen) == padStart(toString16(s), byteLen * 2)

\* A serializer that keeps snarkjs's order of the two components.
g2ToHexUnswapped(g2) ==
    LET x_c0 == padStart(toString16(g2[1][1]), HexChars)
        x_c1 == padStart(toString16(g2[1][2]), HexChars)
        y_c0 == padStart(toString16(g2[2][1]), HexChars)
        y_c1 == padStart(toString16(g2[2][2]), HexChars)
    IN  x_c0 \o x_c1 \o y_c0 \o y_c1

\* g2ToHex(g2) of the browser prover
g2ToHex(g2) ==
    LET x_c0 == padStart(toString16(g2[1][1]), HexChars)
        x_c1 == padStart(toString16(g2[1][2]), HexChars)
        y_c0 == padStart(toString16(g2[2][1]), HexChars)
        y_c1 == padStart(toString16(g2[2][2]), HexChars)
    IN  x_c1 \o x_c0 \o y_c1 \o y_c0

\* g2ToHex(g2, coordBytes) of prove.js
g2ToHexProve(g2, coordBytes) ==
    LET x_c0 == bigintToHex(g2[1][1], coordBytes)
        x_c1 == bigintToHex(g2[1][2], coordBytes)
        y_c0 == bigintToHex(g2[2][1], coordBytes)
        y_c1 == bigintToHex(g2[2][2], coordBytes)
    IN  x_c1 \o x_c0 \o y_c1 \o y_c0

\* g2ToHex(g2) of the test prover
g2ToHexTest(g2) ==
    LET x_c0 == padStart(toString16(g2[1][1]), HexChars)
        x_c1 == padStart(toString16(g2[1][2]), HexChars)
        y_c0 == padStart(toString16(g2[2][1]), HexChars)
        y_c1 == padStart(toString16(g2[2][2]), HexChars)
    IN  x_c1 \o x_c0 \o y_c1 \o y_c0

\* be(v): the big-endian bytes of v, count of them.
RECURSIVE BigEndian(_, _)
BigEndian(v, count) ==
    IF count = 0 THEN << >>
    ELSE Append(BigEndian(v \div 256, count - 1), v % 256)

HexValue(ch) == (CHOOSE d \in 1 .. 16 : HexDigits[d] = ch) - 1

\* The bytes a hex string of even length stands for.
BytesOfHex(hex) ==
    [k \in 1 .. (Len(hex) \div 2) |->
        16 * HexValue(hex[2 * k - 1]) + HexValue(hex[2 * k])]

InitSerial ==
    /\ \E g2 \in G2Points :
          serialized = [pi_b |-> g2, prove |-> << >>, browser |-> << >>,
                        test |-> << >>]
    /\ gameSettle = << >>
    /\ gameBoard = << >>
    /\ relayRoom = << >>
    /\ signals = << >>
    /\ waitingRoom = << >>
    /\ gameLobby = << >>
    /\ ProveIdle /\ ChainIdle /\ GameIdle /\ DeckIdle

\* prove.js: pi_b: g2ToHex(proof.pi_b, 32)
SerializeProve ==
    /\ serialized.prove = << >>
    /\ serialized' = [serialized EXCEPT
                         !.prove = g2ToHexProve(serialized.pi_b, CoordBytes)]
    /\ UNCHANGED << proveVars, chainVars, game, deckVars, gameSettle, gameBoard, relayRoom, signals, waitingRoom, gameLobby >>

\* generateProof of soroban.js: pi_b: g2ToHex(proof.pi_b)
SerializeBrowser ==
    /\ serialized.browser = << >>
    /\ serialized' = [serialized EXCEPT !.browser = g2ToHex(serialized.pi_b)]
    /\ UNCHANGED << proveVars, chainVars, game, deckVars, gameSettle, gameBoard, relayRoom, signals, waitingRoom, gameLobby >>

\* generateProof of prover-test.js: pi_b: g2ToHex(proof.pi_b)
SerializeTest ==
    /\ serialized.test = << >>
    /\ serialized' = [serialized EXCEPT !.test = g2ToHexTest(serialized.pi_b)]
    /\ UNCHANGED << proveVars, chainVars, game, deckVars, gameSettle, gameBoard, relayRoom, signals, waitingRoom, gameLobby >>

NextSerial == SerializeProve \/ SerializeBrowser \/ SerializeTest

SpecSerial == InitSerial /\ [][NextSerial]_vars

\* ---------------------------------------------------------------------------
\* The circuit's templates on signals of the prover's choosing: a constraint
\* system is applied to an assignment and accepts it or not.
\* ---------------------------------------------------------------------------

\* Deck signals: the largest small value tried, and how far below zero (in
\* the field) the values tried reach.
MaxDeckValue == 33
MaxBelowZero == 8

DeckValues == (0 .. MaxDeckValue) \cup { FieldP - j : j \in 1 .. MaxBelowZero }

\* The deck 0, 1, .., 24 with the value v at position k.
DeckSignals ==
    { [i \in 1 .. N_CARDS |-> IF i = k THEN v ELSE i - 1] :
          k \in 1 .. N_CARDS, v \in DeckValues }

InitPermutation ==
    /\ \E deck \in DeckSignals : signals = [deck |-> deck, valid |-> << >>]
    /\ ProveIdle /\ ChainIdle /\ GameIdle /\ DeckIdle
    /\ gameSettle = << >>
    /\ gameBoard = << >>
    /\ relayRoom = << >>
    /\ serialized = << >>
    /\ waitingRoom = << >>
    /\ gameLobby = << >>

\* The constraints of "1. Permutation validity" on the deck signals.
CheckPermutation ==
    /\ signals.valid = << >>
    /\ signals' = [signals EXCEPT !.valid = << PermutationValidity(signals.deck) >>]
    /\ UNCHANGED << proveVars, chainVars, game, deckVars, gameSettle, gameBoard,
                    relayRoom, serialized, waitingRoom, gameLobby >>

NextPermutation == CheckPermutation

SpecPermutation == InitPermutation /\ [][NextPermutation]_vars

\* Weights: the lowest and the highest MaxWeightSample + 1 field elements.
MaxWeightSample == 12

WeightSignals ==
    (0 .. MaxWeightSample) \cup { FieldP - 1 - j : j \in 0 .. MaxWeightSample }

\* The truncated parts tried for a weight: those of the integers weight and
\* weight + FieldP, and zero.
TruncSignals(weight) == { weight % TwoT, (weight + FieldP) % TwoT, 0 }

InitTruncation ==
    /\ \E weight \in WeightSignals :
          \E trunc \in TruncSignals(weight), high \in 0 .. (2 ^ HighBits - 1) :
              signals = [weight |-> weight, trunc |-> trunc, high |-> high,
                         valid |-> << >>]
    /\ ProveIdle /\ ChainIdle /\ GameIdle /\ DeckIdle
    /\ gameSettle = << >>
    /\ gameBoard = << >>
    /\ relayRoom = << >>
    /\ serialized = << >>
    /\ waitingRoom = << >>
    /\ gameLobby = << >>

\* The constraints of "2. Weight computation and truncation" on one card's
\* weight and the prover's trunc_weights[i], high_weights[i].
CheckTruncation ==
    /\ signals.valid = << >>
    /\ signals' = [signals EXCEPT
                      !.valid = << WeightTruncation(signals.weight, signals.trunc,
                                                    signals.high) >>]
    /\ UNCHANGED << proveVars, chainVars, game, deckVars, gameSettle, gameBoard,
                    relayRoom, serialized, waitingRoom, gameLobby >>

NextTruncation == CheckTruncation

SpecTruncation == InitTruncation /\ [][NextTruncation]_vars

\* GameRound's state inputs: scores 0..3, game_active 0 or 1, winner 0..2.
RoundInputs ==
    [score_p1 : 0 .. 3, score_p2 : 0 .. 3, game_active : {0, 1},
     winner : 0 .. 2, ok : {TRUE}]

\* The cards of the rounds after the first of a chain: the lowest and the
\* highest card of each type.
ChainCards == {0, 7, 8, 15, 16, 23, 24}

\* first: the state signals entering the first round; in, cards, out: the
\* inputs and outputs of the last GameRound (out = first before any round).
InitRound ==
    /\ \E in \in RoundInputs :
          signals = [first |-> in, in |-> in, cards |-> << >>, out |-> in, i |-> 0]
    /\ ProveIdle /\ ChainIdle /\ GameIdle /\ DeckIdle
    /\ gameSettle = << >>
    /\ gameBoard = << >>
    /\ relayRoom = << >>
    /\ serialized = << >>
    /\ waitingRoom = << >>
    /\ gameLobby = << >>

\* One GameRound on any two cards and the state inputs drawn.
RoundApplied(card_p1, card_p2) ==
    /\ signals.i = 0
    /\ signals' = [signals EXCEPT !.cards = << card_p1, card_p2 >>,
                                  !.out = GameRound(signals.in, card_p1, card_p2),
                                  !.i = 1]
    /\ UNCHANGED << proveVars, chainVars, game, deckVars, gameSettle, gameBoard,
                    relayRoom, serialized, waitingRoom, gameLobby >>

\* template GameSim, the next round of the chain begun by scores 0, active 1,
\* winner 0: its inputs are the outputs of the round before.
RoundChained(card_p1, card_p2) ==
    /\ signals.i > 0
    /\ signals.i < NRounds
    /\ signals.first = GameSimStart
    /\ signals' = [signals EXCEPT !.in = signals.out,
                                  !.cards = << card_p1, card_p2 >>,
                                  !.out = GameRound(signals.out, card_p1, card_p2),
                                  !.i = @ + 1]
    /\ UNCHANGED << proveVars, chainVars, game, deckVars, gameSettle, gameBoard,
                    relayRoom, serialized, waitingRoom, gameLobby >>

NextRound ==
    \/ \E card_p1, card_p2 \in Cards : RoundApplied(card_p1, card_p2)
    \/ \E card_p1, card_p2 \in ChainCards : RoundChained(card_p1, card_p2)

SpecRound == InitRound /\ [][NextRound]_vars

\* ---------------------------------------------------------------------------
\* The two clients' WaitingRooms on one session.  An await is a step
\* boundary: the chain read of a poll and the code after it are two steps, and
\* so are a reveal's execution on the chain and the code after revealSeed.
\* ---------------------------------------------------------------------------

\* Polls of one WaitingRoom followed while in flight.
MaxPolls == 2

\* The address behind a player role: player 1 created the session as GA,
\* player 2 joined it as GB.
AddressOf(playerRole) == IF playerRole = 1 THEN "GA" ELSE "GB"

\* getGameParsed: phase: Number(native.phase)
PhaseNumber(phase) ==
    CASE phase = "Open" -> 0
      [] phase = "Committed" -> 1
      [] phase = "Revealed" -> 2
      [] OTHER -> 3

\* const seedHex = seed.toString(16).padStart(64, "0")
seedHex(seed) == padStart(toString16(seed), HexChars)

\* BigInt("0x" + hex); the same number is what the 32 bytes of
\* Buffer.from(hex, "hex") stand for in the store.
RECURSIVE HexPrefixValue(_, _)
HexPrefixValue(hex, count) ==
    IF count = 0 THEN 0
    ELSE 16 * HexPrefixValue(hex, count - 1) + HexValue(hex[count])

BigIntOfHex(hex) == HexPrefixValue(hex, Len(hex))

\* A seed written as seedHex and read back as a number, tabulated over the
\* seeds a client can hold.
HexRoundTrip == [seed \in Seeds |-> BigIntOfHex(seedHex(seed))]

\* useState / useRef initial values of WaitingRoom before its mount effect.
\* polls holds the reads of the polls in flight (a bag), reveals the revealSeed calls
\* in flight (each "sent", or holding an answer not yet looked at), onReady
\* the opponentSeed of each onReady call, cancelled whether the user left.
RoomCreated(playerRole, seed) ==
    [playerRole |-> playerRole, seed |-> seed, mounted |-> FALSE,
     stage |-> IF playerRole = 1 THEN "waiting_opponent" ELSE "revealing",
     revealStarted |-> FALSE, doneRef |-> FALSE, pollRef |-> FALSE,
     polls |-> EmptyBag, reveals |-> << >>, onReady |-> << >>, cancelled |-> FALSE]

\* revealSeed(contractId, sessionId, seedHex, publicKey) as called: the seed
\* bytes of the transaction, and no answer yet.
Submitted(seed) == [seed |-> HexRoundTrip[seed], answer |-> "sent"]

\* A doReveal that starts a submission whatever revealStarted says.
doRevealUnguarded(room) ==
    [room EXCEPT !.revealStarted = TRUE, !.stage = "revealing",
                 !.reveals = Append(@, Submitted(room.seed))]

\* doReveal up to its await: if (revealStarted.current) return;
\* revealStarted.current = true; setStage("revealing"); revealSeed(...)
doReveal(room) ==
    IF room.revealStarted THEN room
    ELSE [room EXCEPT !.revealStarted = TRUE, !.stage = "revealing",
                 !.reveals = Append(@, Submitted(room.seed))]

\* The mount effect: player 2 reveals at once, the interval is set and the
\* first poll started.
RoomMounted(room) ==
    LET shown == [room EXCEPT !.mounted = TRUE, !.pollRef = TRUE]
    IN  IF room.playerRole = 2 /\ ~room.revealStarted THEN doReveal(shown) ELSE shown

\* const oppSeedHex = playerRole === 1 ? game.seed2Hex : game.seed1Hex (the
\* stored 32 bytes in hex); const opponentSeed = BigInt("0x" + oppSeedHex)
OpponentSeed(playerRole, read) ==
    HexRoundTrip[IF playerRole = 1 THEN read.seed2 ELSE read.seed1]

\* A poll that reveals whenever its read shows the seed unrevealed.
pollGameStateEager(room, read) ==
    LET myRevealed  == seedRevealed(IF room.playerRole = 1 THEN read.seed1 ELSE read.seed2)
        oppRevealed == seedRevealed(IF room.playerRole = 1 THEN read.seed2 ELSE read.seed1)
    IN  IF room.doneRef THEN room
        ELSE IF myRevealed /\ oppRevealed /\ PhaseNumber(read.phase) >= 2
        THEN [room EXCEPT !.doneRef = TRUE, !.mounted = FALSE, !.pollRef = FALSE,
                          !.onReady = Append(@, OpponentSeed(room.playerRole, read))]
        ELSE IF PhaseNumber(read.phase) >= 1 /\ ~myRevealed
        THEN doRevealUnguarded(room)
        ELSE IF myRevealed /\ ~oppRevealed
        THEN [room EXCEPT !.stage = "waiting_reveal"]
        ELSE room

\* A poll that never looks at doneRef.
pollGameStateUnlatched(room, read) ==
    LET myRevealed  == seedRevealed(IF room.playerRole = 1 THEN read.seed1 ELSE read.seed2)
        oppRevealed == seedRevealed(IF room.playerRole = 1 THEN read.seed2 ELSE read.seed1)
    IN  IF myRevealed /\ oppRevealed /\ PhaseNumber(read.phase) >= 2
        THEN [room EXCEPT !.doneRef = TRUE, !.mounted = FALSE, !.pollRef = FALSE,
                          !.onReady = Append(@, OpponentSeed(room.playerRole, read))]
        ELSE IF PhaseNumber(read.phase) >= 1 /\ ~myRevealed /\ ~room.revealStarted
        THEN doReveal(room)
        ELSE IF myRevealed /\ ~oppRevealed
        THEN [room EXCEPT !.stage = "waiting_reveal"]
        ELSE room

\* pollGameState after its await, on the record read; onReady is App's
\* handleWaitingReady, which leaves the waiting stage and so unmounts the
\* room (its effect cleanup clears the interval).
pollGameState(room, read) ==
    LET myRevealed  == seedRevealed(IF room.playerRole = 1 THEN read.seed1 ELSE read.seed2)
        oppRevealed == seedRevealed(IF room.playerRole = 1 THEN read.seed2 ELSE read.seed1)
    IN  IF room.doneRef THEN room
        ELSE IF myRevealed /\ oppRevealed /\ PhaseNumber(read.phase) >= 2
        THEN [room EXCEPT !.doneRef = TRUE, !.mounted = FALSE, !.pollRef = FALSE,
                          !.onReady = Append(@, OpponentSeed(room.playerRole, read))]
        ELSE IF PhaseNumber(read.phase) >= 1 /\ ~myRevealed /\ ~room.revealStarted
        THEN doReveal(room)
        ELSE IF myRevealed /\ ~oppRevealed
        THEN [room EXCEPT !.stage = "waiting_reveal"]
        ELSE room

\* A sequence without its i-th element.
Without(seq, i) == SubSeq(seq, 1, i - 1) \o SubSeq(seq, i + 1, Len(seq))

\* doReveal after its await: success and AlreadyRevealed lead to
\* waiting_reveal, anything else to the error stage with revealStarted reset.
doRevealResumed(room, answer) ==
    IF answer \in {"Ok", "AlreadyRevealed"}
    THEN [room EXCEPT !.stage = "waiting_reveal"]
    ELSE [room EXCEPT !.revealStarted = FALSE, !.stage = "error"]

\* handleRetry: revealStarted.current = false; setStage(...); pollGameState()
handleRetry(room) ==
    [room EXCEPT !.revealStarted = FALSE,
                 !.stage = IF room.playerRole = 1 THEN "waiting_opponent" ELSE "revealing"]

\* gameState after App's handleWaitingReady: ...prev, opponentSeed.
GameStateReady(sid, room) ==
    [sessionId |-> sid, seed |-> room.seed, playerRole |-> room.playerRole,
     opponentSeed |-> room.onReady[1]]

\* A board that puts its own seed first whatever its role.
SimSeedsOwnFirst(gameState) == << gameState.seed, gameState.opponentSeed >>

\* GameBoard's mount effect: const seed1 = playerRole === 1 ? seed :
\* opponentSeed; const seed2 = playerRole === 2 ? seed : opponentSeed
SimSeeds(gameState) ==
    IF gameState.playerRole = 1
    THEN << gameState.seed, gameState.opponentSeed >>
    ELSE << gameState.opponentSeed, gameState.seed >>

\* Player 1 has created the session and its WaitingRoom has mounted; player 2
\* holds a seed and has yet to join.
InitWaiting ==
    /\ \E seed1, seed2 \in Seeds :
          /\ sessions = (MaxSessionId :> NewSession("GA", computeSeedCommitment(seed1)))
          /\ waitingRoom = [sid |-> MaxSessionId,
                            rooms |-> << RoomMounted(RoomCreated(1, seed1)),
                                         RoomCreated(2, seed2) >>]
    /\ lastCall = NoCall
    /\ gameSettle = << >>
    /\ gameBoard = << >>
    /\ relayRoom = << >>
    /\ serialized = << >>
    /\ signals = << >>
    /\ gameLobby = << >>
    /\ ProveIdle /\ GameIdle /\ DeckIdle

\* GameLobby of player 2: joinGame succeeds on the chain.
JoinLanded ==
    /\ sessions[waitingRoom.sid].phase = "Open"
    /\ sessions' = [sessions EXCEPT ![waitingRoom.sid] =
                       Joined(@, "GB", computeSeedCommitment(waitingRoom.rooms[2].seed))]
    /\ UNCHANGED << waitingRoom, lastCall, proveVars, game, deckVars, gameSettle, gameBoard, relayRoom, serialized, signals, gameLobby >>

\* GameLobby after its await: onGameAction, and WaitingRoom mounts.
Mounted(playerRole) ==
    /\ playerRole = 2
    /\ sessions[waitingRoom.sid].phase # "Open"
    /\ ~waitingRoom.rooms[playerRole].mounted
    /\ ~waitingRoom.rooms[playerRole].doneRef
    /\ ~waitingRoom.rooms[playerRole].cancelled
    /\ waitingRoom' = [waitingRoom EXCEPT !.rooms[playerRole] = RoomMounted(@)]
    /\ UNCHANGED << chainVars, proveVars, game, deckVars, gameSettle, gameBoard, relayRoom, serialized, signals, gameLobby >>

\* A poll (the interval's, the mount effect's or handleRetry's) reads the
\* session; a read that fails ends the poll without a trace.
PollRead(playerRole) ==
    /\ waitingRoom.rooms[playerRole].pollRef
    /\ BagCardinality(waitingRoom.rooms[playerRole].polls) < MaxPolls
    /\ waitingRoom' = [waitingRoom EXCEPT !.rooms[playerRole].polls =
                          @ (+) SetToBag({getGameParsed(sessions, waitingRoom.sid, TRUE)[1]})]
    /\ UNCHANGED << chainVars, proveVars, game, deckVars, gameSettle, gameBoard, relayRoom, serialized, signals, gameLobby >>

\* pollGameState resumes on the record it read.
PollResumed(playerRole, read) ==
    /\ BagIn(read, waitingRoom.rooms[playerRole].polls)
    /\ waitingRoom' = [waitingRoom EXCEPT !.rooms[playerRole] =
                          pollGameState([@ EXCEPT !.polls = @ (-) SetToBag({read})], read)]
    /\ UNCHANGED << chainVars, proveVars, game, deckVars, gameSettle, gameBoard, relayRoom, serialized, signals, gameLobby >>

\* The reveal_seed transaction of a room executes on the chain.
RevealExecuted(playerRole, i) ==
    /\ i \in DOMAIN waitingRoom.rooms[playerRole].reveals
    /\ waitingRoom.rooms[playerRole].reveals[i].answer = "sent"
    /\ LET sid  == waitingRoom.sid
           who  == AddressOf(playerRole)
           seed == waitingRoom.rooms[playerRole].reveals[i].seed
       IN  /\ sessions' = IF RevealResult(sessions[sid], who, seed) = "Ok"
                          THEN [sessions EXCEPT ![sid] = Revealed(@, who, seed)]
                          ELSE sessions
           /\ waitingRoom' = [waitingRoom EXCEPT !.rooms[playerRole].reveals[i].answer =
                                 RevealResult(sessions[sid], who, seed)]
    /\ UNCHANGED << lastCall, proveVars, game, deckVars, gameSettle, gameBoard, relayRoom, serialized, signals, gameLobby >>

\* The submission fails before it reaches the contract (the wallet declines,
\* the RPC is down).
RevealRejected(playerRole, i) ==
    /\ i \in DOMAIN waitingRoom.rooms[playerRole].reveals
    /\ waitingRoom.rooms[playerRole].reveals[i].answer = "sent"
    /\ waitingRoom' = [waitingRoom EXCEPT !.rooms[playerRole].reveals[i].answer = "Failed"]
    /\ UNCHANGED << chainVars, proveVars, game, deckVars, gameSettle, gameBoard, relayRoom, serialized, signals, gameLobby >>

\* doReveal resumes on revealSeed's answer.
RevealResumed(playerRole, i) ==
    /\ i \in DOMAIN waitingRoom.rooms[playerRole].reveals
    /\ waitingRoom.rooms[playerRole].reveals[i].answer # "sent"
    /\ waitingRoom' = [waitingRoom EXCEPT !.rooms[playerRole] =
                          doRevealResumed([@ EXCEPT !.reveals = Without(@, i)],
                                          waitingRoom.rooms[playerRole].reveals[i].answer)]
    /\ UNCHANGED << chainVars, proveVars, game, deckVars, gameSettle, gameBoard, relayRoom, serialized, signals, gameLobby >>

\* The user presses Try Again, shown in the error stage.
TryAgain(playerRole) ==
    /\ waitingRoom.rooms[playerRole].mounted
    /\ waitingRoom.rooms[playerRole].stage = "error"
    /\ waitingRoom' = [waitingRoom EXCEPT !.rooms[playerRole] = handleRetry(@)]
    /\ UNCHANGED << chainVars, proveVars, game, deckVars, gameSettle, gameBoard, relayRoom, serialized, signals, gameLobby >>

\* The user presses Cancel: App's handleNewGame returns to the lobby and the
\* room unmounts, its polls and its reveal in flight carry on.
Cancelled(playerRole) ==
    /\ waitingRoom.rooms[playerRole].mounted
    /\ waitingRoom' = [waitingRoom EXCEPT !.rooms[playerRole].mounted = FALSE,
                                          !.rooms[playerRole].pollRef = FALSE,
                                          !.rooms[playerRole].cancelled = TRUE]
    /\ UNCHANGED << chainVars, proveVars, game, deckVars, gameSettle, gameBoard, relayRoom, serialized, signals, gameLobby >>

\* What the two clients do without their users.
NextWaitingAuto ==
    \/ JoinLanded
    \/ \E playerRole \in Roles : Mounted(playerRole)
    \/ \E playerRole \in Roles : PollRead(playerRole)
    \/ \E playerRole \in Roles :
           \E read \in BagToSet(waitingRoom.rooms[playerRole].polls) : PollResumed(playerRole, read)
    \/ \E playerRole \in Roles :
           \E i \in DOMAIN waitingRoom.rooms[playerRole].reveals : RevealExecuted(playerRole, i)
    \/ \E playerRole \in Roles :
           \E i \in DOMAIN waitingRoom.rooms[playerRole].reveals : RevealRejected(playerRole, i)
    \/ \E playerRole \in Roles :
           \E i \in DOMAIN waitingRoom.rooms[playerRole].reveals : RevealResumed(playerRole, i)

NextWaiting ==
    \/ NextWaitingAuto
    \/ \E playerRole \in Roles : TryAgain(playerRole)
    \/ \E playerRole \in Roles : Cancelled(playerRole)

SpecWaiting == InitWaiting /\ [][NextWaiting]_vars

\* The clients left to themselves, under the claim's assumptions: a step that
\* can be taken is taken, and a reveal that is submitted is not rejected
\* forever.
FairWaiting ==
    /\ WF_vars(JoinLanded)
    /\ \A playerRole \in Roles :
          /\ WF_vars(Mounted(playerRole))
          /\ WF_vars(PollRead(playerRole))
          /\ WF_vars(\E read \in BagToSet(waitingRoom.rooms[playerRole].polls) :
                         PollResumed(playerRole, read))
          /\ SF_vars(RevealExecuted(playerRole, 1))
          /\ WF_vars(RevealResumed(playerRole, 1))

SpecWaitingFair == InitWaiting /\ [][NextWaitingAuto]_vars /\ FairWaiting

\* ---------------------------------------------------------------------------
\* Matchmaking: two clients in startMatchmaking on the relay's matchmaking
\* room, with GameLobby's callbacks.  A message a client sends is handled by
\* the room in the step that sends it; what the room sends waits in the
\* client's inbox.  Every HOSTING event is younger than STALE_THRESHOLD.
\* ---------------------------------------------------------------------------

\* startMatchmaking up to the socket's creation: no role, no timer, nothing
\* received; onHosting counts the calls of the callback, onFoundHost lists the
\* session ids passed to it, pending is pendingGameRef's session id (0: none).
Matchmaking(publicKey) ==
    [publicKey |-> publicKey, pc |-> "connecting", role |-> "none",
     hostDecisionTimer |-> FALSE, cancelled |-> FALSE, inbox |-> << >>,
     onHosting |-> 0, onFoundHost |-> << >>, onMatched |-> 0, pending |-> 0]

\* becomeHost: role = "host"; callbacks.onHosting(), which is doHostGame.
becomeHost(client) ==
    [client EXCEPT !.role = "host", !.onHosting = @ + 1, !.pc = "creating"]

\* becomeJoiner: role = "joiner"; clearTimeout; callbacks.onFoundHost(...),
\* which is doJoinGame(sessionId).
becomeJoiner(client, hostingData) ==
    [client EXCEPT !.role = "joiner", !.hostDecisionTimer = FALSE,
                   !.onFoundHost = Append(@, hostingData.sessionId),
                   !.pc = "joining"]

\* The snapshot's first HOSTING event of another player, if any.
HostingEvents(events, publicKey) ==
    SelectSeq(events, LAMBDA e : e.type = "HOSTING" /\ e.publicKey # publicKey)

\* setTimeout(() => { if (!role && !cancelled) becomeHost(); })
TimerElapsed(client) ==
    IF client.role = "none" /\ ~client.cancelled
    THEN becomeHost([client EXCEPT !.hostDecisionTimer = FALSE])
    ELSE [client EXCEPT !.hostDecisionTimer = FALSE]

\* cancel(): cancelled = true; clearTimeout; socket.close()
MatchmakingCancelled(client) ==
    [client EXCEPT !.cancelled = TRUE, !.hostDecisionTimer = FALSE, !.pc = "done"]

\* The socket's message listener on one message.
MessageHandled(client, data) ==
    IF client.cancelled THEN client
    ELSE IF data.type = "STATE_SNAPSHOT"
    THEN IF HostingEvents(data.events, client.publicKey) # << >>
         THEN becomeJoiner(client, Head(HostingEvents(data.events, client.publicKey)))
         ELSE [client EXCEPT !.hostDecisionTimer = TRUE]
    ELSE IF data.type = "HOSTING" /\ client.role # "host"
            /\ data.publicKey # client.publicKey
    THEN becomeJoiner(client, data)
    ELSE IF data.type = "MATCHED" /\ client.role = "host"
    THEN \* onMatched: if (!pg) return; cancel(); onGameAction(created)
         IF client.pending = 0 THEN [client EXCEPT !.onMatched = @ + 1]
         ELSE MatchmakingCancelled([client EXCEPT !.onMatched = @ + 1])
    ELSE client

\* The other of the two clients.
Peer(publicKey) == IF publicKey = "GA" THEN "GB" ELSE "GA"

\* Both players have pressed Play: two sockets are being opened on a room
\* with an empty log.
InitLobby ==
    /\ gameLobby = [clients |-> [publicKey \in Addresses |-> Matchmaking(publicKey)],
                    events |-> << >>]
    /\ gameSettle = << >>
    /\ gameBoard = << >>
    /\ relayRoom = << >>
    /\ serialized = << >>
    /\ signals = << >>
    /\ waitingRoom = << >>
    /\ ProveIdle /\ ChainIdle /\ GameIdle /\ DeckIdle

\* The socket opens (the room's onConnect admits it) and the client sends
\* STATE_REQUEST.
SocketOpened(publicKey) ==
    /\ gameLobby.clients[publicKey].pc = "connecting"
    /\ gameLobby' = [gameLobby EXCEPT !.clients[publicKey].pc = "requested"]
    /\ UNCHANGED << proveVars, chainVars, game, deckVars, gameSettle, gameBoard, relayRoom, serialized, signals, waitingRoom >>

\* The room's onMessage on STATE_REQUEST: a STATE_SNAPSHOT of its log goes to
\* the sender.
StateRequested(publicKey) ==
    /\ gameLobby.clients[publicKey].pc = "requested"
    /\ gameLobby' = [gameLobby EXCEPT
                        !.clients[publicKey].pc = "waiting",
                        !.clients[publicKey].inbox =
                            Append(@, [type |-> "STATE_SNAPSHOT",
                                       events |-> gameLobby.events])]
    /\ UNCHANGED << proveVars, chainVars, game, deckVars, gameSettle, gameBoard, relayRoom, serialized, signals, waitingRoom >>

\* The client's message listener runs on the next message received.
MessageReceived(publicKey) ==
    /\ gameLobby.clients[publicKey].inbox # << >>
    /\ gameLobby' = [gameLobby EXCEPT !.clients[publicKey] =
                        MessageHandled([@ EXCEPT !.inbox = Tail(@)],
                                       Head(gameLobby.clients[publicKey].inbox))]
    /\ UNCHANGED << proveVars, chainVars, game, deckVars, gameSettle, gameBoard, relayRoom, serialized, signals, waitingRoom >>

\* HOST_DECISION_DELAY has passed.
HostDecisionTimeout(publicKey) ==
    /\ gameLobby.clients[publicKey].hostDecisionTimer
    /\ gameLobby' = [gameLobby EXCEPT !.clients[publicKey] = TimerElapsed(@)]
    /\ UNCHANGED << proveVars, chainVars, game, deckVars, gameSettle, gameBoard, relayRoom, serialized, signals, waitingRoom >>

\* doHostGame after createGame succeeded: pendingGameRef is set and HOSTING
\* sent; the room appends it to its log and relays it to the other client.
doHostGame(publicKey, sid) ==
    /\ gameLobby.clients[publicKey].pc = "creating"
    /\ LET raw == [type |-> "HOSTING", sessionId |-> sid, publicKey |-> publicKey]
       IN  gameLobby' = [gameLobby EXCEPT
                            !.clients[publicKey].pc = "hosting",
                            !.clients[publicKey].pending = sid,
                            !.events = KeepNewest(Append(@, raw)),
                            !.clients[Peer(publicKey)].inbox =
                                IF gameLobby.clients[Peer(publicKey)].pc = "connecting"
                                THEN @ ELSE Append(@, raw)]
    /\ UNCHANGED << proveVars, chainVars, game, deckVars, gameSettle, gameBoard, relayRoom, serialized, signals, waitingRoom >>

\* doJoinGame after joinGame succeeded: MATCHED is sent (the room empties its
\* log and relays it), matchmaking is cancelled and onGameAction called.
doJoinGame(publicKey) ==
    /\ gameLobby.clients[publicKey].pc = "joining"
    /\ LET raw == [type |-> "MATCHED",
                   sessionId |-> gameLobby.clients[publicKey].onFoundHost[1]]
       IN  gameLobby' = [gameLobby EXCEPT
                            !.clients[publicKey] = MatchmakingCancelled(@),
                            !.events = << >>,
                            !.clients[Peer(publicKey)].inbox =
                                IF gameLobby.clients[Peer(publicKey)].pc = "connecting"
                                THEN @ ELSE Append(@, raw)]
    /\ UNCHANGED << proveVars, chainVars, game, deckVars, gameSettle, gameBoard, relayRoom, serialized, signals, waitingRoom >>

NextLobby ==
    \/ \E publicKey \in Addresses : SocketOpened(publicKey)
    \/ \E publicKey \in Addresses : StateRequested(publicKey)
    \/ \E publicKey \in Addresses : MessageReceived(publicKey)
    \/ \E publicKey \in Addresses : HostDecisionTimeout(publicKey)
    \/ \E publicKey \in Addresses, sid \in SessionIds : doHostGame(publicKey, sid)
    \/ \E publicKey \in Addresses : doJoinGame(publicKey)

SpecLobby == InitLobby /\ [][NextLobby]_vars

\* ---------------------------------------------------------------------------
\* Properties of the session store.
\* ---------------------------------------------------------------------------

\* C1: whenever a session is Settled, its stored winner is the winner the
\* simulator computes from the stored seed1, seed2 and the session id.
C1_SettledWinnerIsSimulated ==
    \A s \in DOMAIN sessions :
        sessions[s].phase = "Settled" =>
            sessions[s].winner = SimWinner(sessions[s].seed1, sessions[s].seed2, s)

\* C2: the phase of a session only moves Open -> Committed -> Revealed ->
\* Settled, one step at a time; a session never disappears, never goes back,
\* never skips a phase, and a new session starts Open.
C2_PhaseMonotone ==
    [][/\ \A s \in DOMAIN sessions :
              /\ s \in DOMAIN sessions'
              /\ \/ sessions'[s].phase = sessions[s].phase
                 \/ sessions'[s].phase = NextPhase(sessions[s].phase)
       /\ \A s \in DOMAIN sessions' \ DOMAIN sessions :
              sessions'[s].phase = "Open"]_vars

C2_Witness ==
    \E s \in DOMAIN sessions :
        /\ sessions[s].phase = "Settled"
        /\ lastCall.op = "settle_game" /\ lastCall.result = "Ok"

\* C3: of two settles on the same Revealed session that both carry a valid
\* proof, the one the chain orders first succeeds and records its winner; the
\* one ordered after it returns AlreadySettled and changes nothing.
C3_FirstSettleWins ==
    [][\A s \in DOMAIN sessions :
          ( /\ lastCall'.op = "settle_game"
            /\ lastCall'.sid = s
            /\ InputsMatch(sessions[s], s, lastCall'.args.pubs)
            /\ verify(lastCall'.args.proof, lastCall'.args.pubs) )
          => /\ sessions[s].phase = "Revealed"
                => /\ lastCall'.result = "Ok"
                   /\ sessions'[s].phase = "Settled"
                   /\ sessions'[s].winner = lastCall'.args.pubs.winner
             /\ sessions[s].phase = "Settled"
                => /\ lastCall'.result = "AlreadySettled"
                   /\ sessions' = sessions]_vars

\* A second settle with a valid proof for the other winner has been refused.
C3_Witness ==
    /\ lastCall.op = "settle_game"
    /\ lastCall.result = "AlreadySettled"
    /\ lastCall.sid \in DOMAIN sessions
    /\ InputsMatch(sessions[lastCall.sid], lastCall.sid, lastCall.args.pubs)
    /\ verify(lastCall.args.proof, lastCall.args.pubs)
    /\ sessions[lastCall.sid].winner # lastCall.args.pubs.winner

\* C4: every stored seed that is not the zero sentinel hashes, under
\* Poseidon of arity 1, to the stored commit of the same player.
C4_StoredSeedOpensCommit ==
    \A s \in DOMAIN sessions :
        /\ sessions[s].seed1 # ZeroSentinel
               => Poseidon1(sessions[s].seed1) = sessions[s].commit1
        /\ sessions[s].seed2 # ZeroSentinel
               => Poseidon1(sessions[s].seed2) = sessions[s].commit2

C4_Witness ==
    \E s \in DOMAIN sessions :
        /\ sessions[s].seed1 # ZeroSentinel
        /\ sessions[s].seed2 # ZeroSentinel
        /\ sessions[s].seed1 # sessions[s].seed2

\* C5: a reveal on a Committed session whose seed does not hash to the
\* caller's stored commit returns BadOpening and leaves the session as it
\* was: no seed is written and the phase stays Committed.
C5_BadOpeningChangesNothing ==
    [][\A s \in DOMAIN sessions :
          ( /\ lastCall'.op = "reveal_seed"
            /\ lastCall'.sid = s
            /\ sessions[s].phase = "Committed"
            /\ Poseidon1(lastCall'.args.seed)
                   # (IF lastCall'.args.who = sessions[s].player1
                      THEN sessions[s].commit1 ELSE sessions[s].commit2) )
          => /\ lastCall'.result = "BadOpening"
             /\ sessions' = sessions]_vars

C5_Witness ==
    /\ lastCall.op = "reveal_seed"
    /\ lastCall.result = "BadOpening"
    /\ lastCall.sid \in DOMAIN sessions
    /\ sessions[lastCall.sid].phase = "Committed"
    /\ sessions[lastCall.sid].commit1 # sessions[lastCall.sid].commit2

\* C11: a session is in phase Revealed exactly when both commits, both
\* addresses and both non-zero seeds are stored and the winner is 0; after
\* only one of the two players has revealed the phase is still Committed.
C11_RevealedIffBothSeeds ==
    \A s \in DOMAIN sessions :
        /\ sessions[s].phase = "Revealed"
               <=> /\ sessions[s].commit1 # ZeroSentinel
                   /\ sessions[s].commit2 # ZeroSentinel
                   /\ sessions[s].player1 # NoAddress
                   /\ sessions[s].player2 # NoAddress
                   /\ sessions[s].seed1 # ZeroSentinel
                   /\ sessions[s].seed2 # ZeroSentinel
                   /\ sessions[s].winner = 0
        /\ ( /\ sessions[s].winner = 0
             /\ sessions[s].player2 # NoAddress
             /\ (sessions[s].seed1 = ZeroSentinel) # (sessions[s].seed2 = ZeroSentinel) )
               => sessions[s].phase = "Committed"

\* The second player alone has revealed.
C11_Witness ==
    /\ lastCall.op = "reveal_seed"
    /\ lastCall.result = "Ok"
    /\ lastCall.sid \in DOMAIN sessions
    /\ sessions[lastCall.sid].phase = "Committed"
    /\ sessions[lastCall.sid].seed1 = ZeroSentinel
    /\ sessions[lastCall.sid].seed2 # ZeroSentinel

\* C12: a session is in phase Settled exactly when its stored winner is 1 or
\* 2; in every other phase the stored winner is 0.
C12_SettledIffWinner ==
    \A s \in DOMAIN sessions :
        /\ sessions[s].phase = "Settled" <=> sessions[s].winner \in {1, 2}
        /\ sessions[s].phase # "Settled" => sessions[s].winner = 0

C12_Witness ==
    \E s \in DOMAIN sessions :
        /\ sessions[s].phase = "Settled"
        /\ sessions[s].winner = 2
        /\ lastCall.op = "settle_game" /\ lastCall.result = "Ok"

C14_CreateOnExistingRefused ==
    [][\A s \in DOMAIN sessions :
          /\ s \in DOMAIN sessions'
          /\ (lastCall'.op = "create_game" /\ lastCall'.sid = s)
                => /\ lastCall'.result = "SessionExists"
                   /\ sessions' = sessions]_vars

\* A create on the id of a Settled session has been refused.
C14_Witness ==
    /\ lastCall.op = "create_game"
    /\ lastCall.result = "SessionExists"
    /\ lastCall.sid \in DOMAIN sessions
    /\ sessions[lastCall.sid].phase = "Settled"
    /\ lastCall.args.player1 # sessions[lastCall.sid].player1

\* C15: a join succeeds only on an Open session and by an address other than
\* player1; on a Committed, Revealed or Settled session it returns NotOpen,
\* by player1's own address on an Open session it returns SelfJoin, and a
\* refused join changes nothing, so a session is joined at most once.
C15_JoinOnlyWhenOpen ==
    [][\A s \in DOMAIN sessions :
          (lastCall'.op = "join_game" /\ lastCall'.sid = s)
          => /\ sessions[s].phase # "Open" => lastCall'.result = "NotOpen"
             /\ ( /\ sessions[s].phase = "Open"
                  /\ lastCall'.args.player2 = sessions[s].player1 )
                    => lastCall'.result = "SelfJoin"
             /\ lastCall'.result = "Ok"
                    => /\ sessions[s].phase = "Open"
                       /\ sessions[s].player2 = NoAddress
                       /\ lastCall'.args.player2 # sessions[s].player1
                       /\ sessions'[s].phase = "Committed"
             /\ lastCall'.result # "Ok" => sessions' = sessions]_vars

\* A second join, with another commit, has been refused on a joined session.
C15_Witness ==
    /\ lastCall.op = "join_game"
    /\ lastCall.result = "NotOpen"
    /\ lastCall.sid \in DOMAIN sessions
    /\ sessions[lastCall.sid].phase = "Committed"
    /\ lastCall.args.player2 # sessions[lastCall.sid].player1
    /\ lastCall.args.commit2 # sessions[lastCall.sid].commit2

\* C16: settle on an Open or Committed session returns NotRevealed; settle on
\* a Revealed session whose submitted commit1, commit2, seed1, seed2 or
\* session id differs from the stored value returns InputMismatch; every
\* failed settle leaves phase and winner unchanged.
C16_FailedSettleChangesNothing ==
    [][\A s \in DOMAIN sessions :
          (lastCall'.op = "settle_game" /\ lastCall'.sid = s)
          => /\ sessions[s].phase \in {"Open", "Committed"}
                    => lastCall'.result = "NotRevealed"
             /\ ( /\ sessions[s].phase = "Revealed"
                  /\ \/ lastCall'.args.pubs.seed_commit1 # sessions[s].commit1
                     \/ lastCall'.args.pubs.seed_commit2 # sessions[s].commit2
                     \/ lastCall'.args.pubs.seed1 # sessions[s].seed1
                     \/ lastCall'.args.pubs.seed2 # sessions[s].seed2
                     \/ lastCall'.args.pubs.session_id # s )
                    => lastCall'.result = "InputMismatch"
             /\ lastCall'.result # "Ok"
                    => /\ sessions'[s].phase = sessions[s].phase
                       /\ sessions'[s].winner = sessions[s].winner]_vars

\* A settle with a verifying proof for another session id has been refused.
C16_Witness ==
    /\ lastCall.op = "settle_game"
    /\ lastCall.result = "InputMismatch"
    /\ lastCall.sid \in DOMAIN sessions
    /\ sessions[lastCall.sid].phase = "Revealed"
    /\ lastCall.args.pubs.session_id # lastCall.sid
    /\ verify(lastCall.args.proof, lastCall.args.pubs)

C31_RevealedSeedIsReported ==
    (lastCall.op = "reveal_seed" /\ lastCall.result = "Ok") =>
        LET read == getGameParsed(sessions, lastCall.sid, TRUE)[1]
        IN  /\ seedRevealed(seed_of(read, lastCall.args.who))
            /\ read.phase = "Committed" =>
                   \/ ~seedRevealed(read.seed1)
                   \/ ~seedRevealed(read.seed2)
\* ---------------------------------------------------------------------------
\* Properties of the circuit, the simulator and the witness generator.
\* ---------------------------------------------------------------------------

\* C6: for fixed seed1, seed2 and session_id, every circuit input that
\* satisfies the PirateCards constraints carries the same winner: no two
\* proofs made on the same seeds and session id declare different winners.
C6_SatisfyingWitnessesAgree ==
    \A a, b \in proven : a[2] = b[2]

\* C7: for every order of the deck and every coin hash, the winner the
\* simulator returns is 1 or 2.
C7_WinnerIsAPlayer ==
    game.fin # << >> => game.fin[1].sim.winner \in {1, 2}

\* A game that ran through the whole deck level and was settled by the coin.
C7_Witness ==
    /\ game.fin # << >>
    /\ game.fin[1].sim.endReason = "coinflip"
    /\ game.fin[1].coinHash > 1

\* C8: for every assignment of weights to the 25 cards, colliding truncated
\* weights included, the derived deck holds each index 0..24 exactly once.
C8_DeckIsPermutation ==
    decksOut.sim # << >> =>
        /\ Len(decksOut.sim) = N_CARDS
        /\ \A c \in Cards :
               Cardinality({ k \in 1 .. Len(decksOut.sim) : decksOut.sim[k] = c }) = 1

\* A deck derived from weights of which two collide after truncation without
\* being equal, and two others do not collide.
C8_Witness ==
    /\ decksOut.sim # << >>
    /\ \E i, j \in 1 .. N_CARDS :
           /\ weightsIn[i] # weightsIn[j]
           /\ weightsIn[i] % TwoT = weightsIn[j] % TwoT
    /\ \E i, j \in 1 .. N_CARDS : weightsIn[i] % TwoT # weightsIn[j] % TwoT

\* C9: on the same seed1, seed2 and sessionId the simulator and the witness
\* generator compute the same deck, the same cumulative scores after every
\* round and the same winner.
C9_SimulatorAgreesWithProver ==
    (simOut # << >> /\ proofOut # << >>) =>
        /\ simOut[1].deck = proofOut[1].circuitInput.deck
        /\ simOut[1].winner = proofOut[1].winner
        /\ \A k \in 1 .. Len(simOut[1].rounds) :
               /\ k <= Len(proofOut[1].gameLog)
               /\ "score" \in DOMAIN proofOut[1].gameLog[k]
               /\ proofOut[1].gameLog[k].score
                      = << simOut[1].rounds[k].scoreP1, simOut[1].rounds[k].scoreP2 >>
        /\ \A k \in 1 .. Len(proofOut[1].gameLog) :
               "score" \in DOMAIN proofOut[1].gameLog[k] => k <= Len(simOut[1].rounds)

\* Both have run on a game of several rounds in which both players scored.
C9_Witness ==
    /\ simOut # << >> /\ proofOut # << >>
    /\ Len(simOut[1].rounds) > 2
    /\ simOut[1].rounds[Len(simOut[1].rounds)].scoreP1 > 0
    /\ simOut[1].rounds[Len(simOut[1].rounds)].scoreP2 > 0

\* C10: for every deck and every coin bit, the winner signal of GameSim (the
\* twelve GameRound components and the tiebreaker) is the winner the
\* simulator computes on the same deck and coin.
C10_CircuitAgreesWithSimulator ==
    game.fin # << >> =>
        /\ game.fin[1].cir.ok
        /\ game.fin[1].cir.winner = game.fin[1].sim.winner

\* A game the simulator stopped early on three wins of player 2, which the
\* circuit played to the last round.
C10_Witness ==
    /\ game.fin # << >>
    /\ game.fin[1].sim.endReason = "score"
    /\ game.fin[1].sim.winner = 2
    /\ game.i = NRounds

\* C18: when two of the 25 truncated weights are equal, generateProof
\* produces no proof and no deck order.
C18_CollidingWeightsRefused ==
    \A k \in 1 .. Len(proofOut) :
        (\E i, j \in 1 .. N_CARDS :
            /\ i < j
            /\ proofOut[k].circuitInput.trunc_weights[i]
                   = proofOut[k].circuitInput.trunc_weights[j])
        => ~proofOut[k].ok


\* C24: the simulator's game ends in the first round in which a player draws
\* card 24: the opponent of the player who drew it wins, neither score
\* changes, the round is marked blackSpot and no round follows; a round in
\* which card 24 is not drawn is not marked, so with card 24 left at deck
\* position 24 no round is marked blackSpot.
C24_BlackSpotEndsGame ==
    [][\A c1, c2 \in game'.dealt \ game.dealt :
          Deal(c1, c2) =>
              /\ game.sim.gameOver =>
                    /\ game'.sim = game.sim
                    /\ game'.lastBlackSpot = game.lastBlackSpot
              /\ ~game.sim.gameOver /\ c1 = 24 =>
                    /\ game'.sim.gameOver
                    /\ game'.sim.winner = 2
                    /\ game'.sim.scoreP1 = game.sim.scoreP1
                    /\ game'.sim.scoreP2 = game.sim.scoreP2
                    /\ SimRound(game.sim, c1, c2).round.blackSpot
                    /\ game'.lastBlackSpot
              /\ ~game.sim.gameOver /\ c2 = 24 =>
                    /\ game'.sim.gameOver
                    /\ game'.sim.winner = 1
                    /\ game'.sim.scoreP1 = game.sim.scoreP1
                    /\ game'.sim.scoreP2 = game.sim.scoreP2
                    /\ SimRound(game.sim, c1, c2).round.blackSpot
                    /\ game'.lastBlackSpot
              /\ ~game.sim.gameOver /\ c1 # 24 /\ c2 # 24 =>
                    /\ ~SimRound(game.sim, c1, c2).round.blackSpot
                    /\ ~game'.lastBlackSpot
      ]_vars

\* A game the simulator ended in its fifth round or later on player 2's draw
\* of card 24, with both players having scored, dealt to the end.
C24_Witness ==
    /\ game # << >>
    /\ game.i = NRounds
    /\ game.sim.gameOver
    /\ game.lastBlackSpot
    /\ game.sim.winner = 1
    /\ game.sim.scoreP1 > 0
    /\ game.sim.scoreP2 > 1

\* C25: in the simulator's game each round moves scoreP1 + scoreP2 by at
\* most 1; the scores never pass 3 and are never both 3; the game is over as
\* soon as a score is 3, with that player the winner; once the game is over
\* no round is played.
C25_ScoresEndAtThree ==
    /\ [](game # << >> =>
            /\ game.sim.scoreP1 <= 3
            /\ game.sim.scoreP2 <= 3
            /\ ~(game.sim.scoreP1 = 3 /\ game.sim.scoreP2 = 3)
            /\ game.sim.scoreP1 = 3 => game.sim.gameOver /\ game.sim.winner = 1
            /\ game.sim.scoreP2 = 3 => game.sim.gameOver /\ game.sim.winner = 2)
    /\ [][/\ game'.sim.scoreP1 + game'.sim.scoreP2
                 - (game.sim.scoreP1 + game.sim.scoreP2) \in {0, 1}
          /\ game'.sim.scoreP1 >= game.sim.scoreP1
          /\ game'.sim.scoreP2 >= game.sim.scoreP2
          /\ game.sim.gameOver => game'.sim = game.sim
          /\ (~game.sim.gameOver /\ game'.sim.gameOver /\ ~game'.lastBlackSpot) =>
                 \/ game'.sim.scoreP1 = 3 /\ game.sim.scoreP1 = 2
                 \/ game'.sim.scoreP2 = 3 /\ game.sim.scoreP2 = 2
      ]_vars

\* A game the simulator ended at 3 : 2 for player 2 before the last round.
C25_Witness ==
    /\ game # << >>
    /\ game.sim.gameOver
    /\ game.sim.scoreP2 = 3
    /\ game.sim.scoreP1 = 2
    /\ game.sim.winner = 2
    /\ game.i < NRounds

\* C26: the coin decides the simulator's winner exactly when all twelve
\* rounds were played, the game did not end in any of them (no Black Spot
\* drawn, no score of 3) and the scores are level; the winner is then the
\* coin hash mod 2, plus 1.  With unequal scores after twelve rounds the
\* higher score wins, whatever the coin.
C26_CoinDecidesLevelGame ==
    game.fin # << >> =>
        LET fin   == game.fin[1]
            level == /\ game.i = NRounds
                     /\ ~game.sim.gameOver
                     /\ game.sim.scoreP1 = game.sim.scoreP2
            other == SimFinish(game.sim, game.lastBlackSpot, fin.coinHash + 1)
        IN  /\ level => fin.sim.winner = (fin.coinHash % 2) + 1
            /\ level <=> other.winner # fin.sim.winner
            /\ level => game.sim.scoreP1 < 3 /\ ~game.lastBlackSpot
            /\ (~game.sim.gameOver /\ game.sim.scoreP1 > game.sim.scoreP2) =>
                   fin.sim.winner = 1
            /\ (~game.sim.gameOver /\ game.sim.scoreP2 > game.sim.scoreP1) =>
                   fin.sim.winner = 2

\* A game level at 2 : 2 after twelve rounds, decided for player 2 by an odd
\* coin hash.
C26_Witness ==
    /\ game.fin # << >>
    /\ ~game.sim.gameOver
    /\ game.sim.scoreP1 = 2
    /\ game.sim.scoreP2 = 2
    /\ game.fin[1].coinHash % 2 = 1
    /\ game.fin[1].sim.winner = 2

\* C27: the endReason the simulator returns names the rule that ended the
\* game: "blackspot" exactly when the game ended in a round that drew card
\* 24, "score" exactly when it ended on a player's third win, "exhausted"
\* exactly when twelve rounds ended with unequal scores below 3, "coinflip"
\* exactly when twelve rounds ended with equal scores.
C27_EndReasonNamesRule ==
    game.fin # << >> =>
        LET reason  == game.fin[1].sim.endReason
            byScore == game.sim.scoreP1 = 3 \/ game.sim.scoreP2 = 3
        IN  /\ reason \in {"blackspot", "score", "exhausted", "coinflip"}
            /\ reason = "blackspot" <=> (game.sim.gameOver /\ ~byScore)
            /\ reason = "score" <=> (game.sim.gameOver /\ byScore)
            /\ reason = "exhausted" <=>
                   /\ ~game.sim.gameOver
                   /\ game.i = NRounds
                   /\ game.sim.scoreP1 # game.sim.scoreP2
                   /\ game.sim.scoreP1 < 3
                   /\ game.sim.scoreP2 < 3
            /\ reason = "coinflip" <=>
                   /\ ~game.sim.gameOver
                   /\ game.i = NRounds
                   /\ game.sim.scoreP1 = game.sim.scoreP2

\* A game that ended on the Black Spot after both players had scored twice.
C27_Witness ==
    /\ game.fin # << >>
    /\ game.fin[1].sim.endReason = "blackspot"
    /\ game.sim.scoreP1 = 2
    /\ game.sim.scoreP2 = 2

\* C28: every assignment of field elements to the deck signals that the
\* range checks and the 300 inverse constraints accept holds each of
\* 0..24 exactly once.
C28_AcceptedDeckIsBijection ==
    (signals # << >> /\ signals.valid = << TRUE >>) =>
        \A c \in Cards :
            Cardinality({ i \in 1 .. N_CARDS : signals.deck[i] = c }) = 1

\* C29: the only pair (trunc, high) the weight constraints accept for a
\* weight is (weight mod 2^128, weight div 2^128), the pair the witness
\* generator supplies.
C29_TruncationIsUnique ==
    (signals # << >> /\ signals.valid = << TRUE >>) =>
        /\ signals.trunc = ProofWeightOf(0, signals.weight).truncWeight
        /\ signals.trunc = signals.weight % TwoT
        /\ signals.high = signals.weight \div TwoT

\* The inputs of the last GameRound are in the range of scores 0..3 and
\* winner 0..2.
RoundInRange ==
    /\ signals # << >>
    /\ signals.i > 0
    /\ signals.in.score_p1 \in 0 .. 3
    /\ signals.in.score_p2 \in 0 .. 3
    /\ signals.in.winner \in 0 .. 2

\* C30 as stated: for all cards 0..24, input scores 0..3 and winner_in 0..2,
\* winner_out is 0, 1 or 2; whenever both scores are at least 3 after the
\* round (of a game that is active) winner_out is 1; along the chain of
\* twelve rounds active = 1 exactly while winner = 0.
C30_BothAtThreeGivesPlayerOne ==
    RoundInRange =>
        /\ signals.out.ok
        /\ signals.out.winner \in {0, 1, 2}
        /\ (/\ signals.in.game_active = 1
            /\ signals.out.score_p1 >= 3
            /\ signals.out.score_p2 >= 3) => signals.out.winner = 1
        /\ signals.first = GameSimStart =>
               (signals.out.game_active = 1 <=> signals.out.winner = 0)

\* C30: for all cards 0..24 (both 24 included), input scores 0..3,
\* game_active_in 0 or 1 and winner_in 0..2, winner_out is 0, 1 or 2; when
\* the round can set the winner (game_active_in = 1, winner_in = 0, no card
\* 24) and both scores are at least 3 after it, winner_out is 1; when it
\* cannot set the winner (game_active_in = 0 or winner_in # 0), winner_out is
\* winner_in; along the chain of twelve rounds active = 1 exactly while
\* winner = 0.
C30_WinnerOutInRange ==
    RoundInRange =>
        /\ signals.out.ok
        /\ signals.out.winner \in {0, 1, 2}
        /\ (/\ signals.in.game_active = 1
            /\ signals.in.winner = 0
            /\ 24 \notin {signals.cards[1], signals.cards[2]}
            /\ signals.out.score_p1 >= 3
            /\ signals.out.score_p2 >= 3) => signals.out.winner = 1
        /\ (signals.in.game_active = 0 \/ signals.in.winner # 0) =>
               signals.out.winner = signals.in.winner
        /\ signals.first = GameSimStart =>
               /\ signals.out.game_active \in {0, 1}
               /\ signals.out.game_active = 1 <=> signals.out.winner = 0

\* A round entered at 2 : 3 with the winner not set, won by player 1: both
\* scores are 3 after it.
C30_Witness ==
    /\ RoundInRange
    /\ signals.in.game_active = 1
    /\ signals.in.winner = 0
    /\ signals.in.score_p1 = 2
    /\ signals.in.score_p2 = 3
    /\ signals.out.score_p1 = 3
    /\ signals.out.score_p2 = 3
    /\ signals.out.winner = 1

\* ---------------------------------------------------------------------------
\* Properties of the client components.
\* ---------------------------------------------------------------------------

\* C19: every winner GameSettle has passed to onSettled is the winner stored
\* on chain for the session, also when the client's own settle failed
\* because somebody else settled first.
C19_ReportedWinnerIsStored ==
    gameSettle # << >> =>
        \A winner \in gameSettle.onSettled :
            /\ sessions[gameSettle.gameState.sessionId].phase = "Settled"
            /\ sessions[gameSettle.gameState.sessionId].winner = winner

\* The client's own transaction failed on chain, the session having been
\* settled first with the other winner, and the client reported that winner.
C19_Witness ==
    /\ gameSettle # << >>
    /\ lastCall.op = "settle_game"
    /\ lastCall.result = "AlreadySettled"
    /\ gameSettle.proofData # << >>
    /\ gameSettle.onSettled # {}
    /\ gameSettle.proofData[1].winner \notin gameSettle.onSettled

\* C20: whenever the board, rendered with the relay socket not open, waits
\* for the opponent's card, the fallback timer is set; and if the socket is
\* never open, then in every round the opponent's card is revealed after the
\* player has drawn, with no relay message handled.
C20_FallbackRevealsOpponent ==
    /\ []( ( /\ gameBoard.mounted
             /\ gameBoard.myDrawn /\ ~gameBoard.oppDrawn
             /\ ~gameBoard.relayConnected )
           => gameBoard.fallbackTimer )
    /\ ( [](gameBoard.readyState # "OPEN")
         => \A r \in 0 .. MaxRoundIndex :
               ( gameBoard.roundIndex = r /\ gameBoard.myDrawn /\ ~gameBoard.oppDrawn )
               ~> ( /\ gameBoard.roundIndex = r
                    /\ gameBoard.myDrawn /\ gameBoard.oppDrawn
                    /\ ~gameBoard.relayed ) )

\* The last of twelve rounds has been played to the end by the timer alone.
C20_Witness ==
    /\ gameBoard # << >>
    /\ gameBoard.roundIndex = 11
    /\ gameBoard.myDrawn /\ gameBoard.oppDrawn
    /\ ~gameBoard.relayed
    /\ gameBoard.readyState = "CLOSED"
    /\ ~gameBoard.relayConnected


\* C21: after every handler of the relay the event log holds at most
\* MAX_EVENTS entries, and once more than MAX_EVENTS messages have been
\* stored it holds the MAX_EVENTS most recently stored ones, in the order in
\* which they arrived.
C21_LogKeepsNewest ==
    relayRoom # << >> =>
        /\ Len(relayRoom.events) <= MAX_EVENTS
        /\ Len(relayRoom.stored) > MAX_EVENTS =>
               relayRoom.events =
                   SubSeq(relayRoom.stored,
                          Len(relayRoom.stored) - MAX_EVENTS + 1,
                          Len(relayRoom.stored))
        /\ Len(relayRoom.stored) <= MAX_EVENTS =>
               relayRoom.events = relayRoom.stored

C21_Witness ==
    /\ relayRoom # << >>
    /\ Len(relayRoom.stored) > MAX_EVENTS
    /\ Len(relayRoom.events) = MAX_EVENTS
    /\ relayRoom.events[1] # relayRoom.stored[1]

\* C22: for each connection, no interval as long as the rate limiter's window
\* holds more than RATE_LIMIT_MAX of its messages that were stored or
\* broadcast.
C22_AtMostMaxPerInterval ==
    relayRoom # << >> =>
        \A c \in ConnIds, t \in 0 .. MaxNow :
            Cardinality({k \in DOMAIN relayRoom.relayed[c] :
                            /\ t <= relayRoom.relayed[c][k]
                            /\ relayRoom.relayed[c][k] < t + RATE_LIMIT_WINDOW})
                <= RATE_LIMIT_MAX

\* The encoding the verifier expects of pi_b: be(X.c1) || be(X.c0) ||
\* be(Y.c1) || be(Y.c0), each of CoordBytes bytes.
ExpectedG2Bytes(g2) ==
    BigEndian(g2[1][2], CoordBytes) \o BigEndian(g2[1][1], CoordBytes)
        \o BigEndian(g2[2][2], CoordBytes) \o BigEndian(g2[2][1], CoordBytes)

\* C23: each of the three serializers writes pi_b = [[x_c0, x_c1], [y_c0,
\* y_c1]] as 256 hex characters standing for the 128 bytes be(X.c1) ||
\* be(X.c0) || be(Y.c1) || be(Y.c0), 32 bytes per coordinate.
C23_G2SwappedBigEndian ==
    serialized # << >> =>
        \A hex \in {serialized.prove, serialized.browser, serialized.test} :
            hex # << >> =>
                /\ Len(hex) = 4 * HexChars
                /\ Len(BytesOfHex(hex)) = 128
                /\ BytesOfHex(hex) = ExpectedG2Bytes(serialized.pi_b)

C23_Witness ==
    /\ serialized # << >>
    /\ serialized.prove # << >>
    /\ serialized.browser # << >>
    /\ serialized.test # << >>
    /\ serialized.pi_b[1][1] # serialized.pi_b[1][2]
    /\ serialized.pi_b[2][1] # serialized.pi_b[2][2]
    /\ serialized.pi_b[1][2] = MaxCoord
\* ---------------------------------------------------------------------------
\* Claims about the WaitingRooms.
\* ---------------------------------------------------------------------------

\* C32: a WaitingRoom never has two reveal submissions in flight, and a
\* submission starts only once both players have committed; player 1's starts
\* in a poll whose read showed phase >= 1.  Overlapping polls, Try Again and
\* Cancel are among the steps.
C32_RevealAfterCommitOneInFlight ==
    [][\A playerRole \in Roles :
          LET before == waitingRoom.rooms[playerRole]
              after  == waitingRoom'.rooms[playerRole]
          IN  /\ Len(after.reveals) <= 1
              /\ Len(after.reveals) > Len(before.reveals) =>
                    /\ sessions[waitingRoom.sid].phase # "Open"
                    /\ playerRole = 1 =>
                          \E read \in BagToSet(before.polls) :
                              /\ CopiesIn(read, after.polls) < CopiesIn(read, before.polls)
                              /\ PhaseNumber(read.phase) >= 1]_vars

\* Player 1 has a reveal in flight while two of its polls overlap, and player
\* 2 has one in flight next to a poll of its own.
C32_Witness ==
    /\ Len(waitingRoom.rooms[1].reveals) = 1
    /\ waitingRoom.rooms[1].reveals[1].answer = "sent"
    /\ BagCardinality(waitingRoom.rooms[1].polls) = 2
    /\ Len(waitingRoom.rooms[2].reveals) = 1
    /\ waitingRoom.rooms[2].reveals[1].answer = "sent"
    /\ waitingRoom.rooms[2].stage = "revealing"
    /\ waitingRoom.rooms[2].polls # EmptyBag

\* C37: a WaitingRoom calls onReady at most once, in a step that resumes a
\* poll whose read showed both seeds revealed and phase >= 2, and the
\* opponentSeed it passes is the opponent's seed stored on the chain; polls
\* of one room overlap.
C37_OnReadyOnceWithStoredSeed ==
    [][\A playerRole \in Roles :
          LET before == waitingRoom.rooms[playerRole]
              after  == waitingRoom'.rooms[playerRole]
          IN  /\ Len(after.onReady) <= 1
              /\ Len(after.onReady) > Len(before.onReady) =>
                    /\ \E read \in BagToSet(before.polls) :
                           /\ CopiesIn(read, after.polls) < CopiesIn(read, before.polls)
                           /\ seedRevealed(read.seed1)
                           /\ seedRevealed(read.seed2)
                           /\ PhaseNumber(read.phase) >= 2
                    /\ after.onReady[Len(after.onReady)] =
                           seed_of(sessions[waitingRoom.sid], AddressOf(3 - playerRole))]_vars

\* A room has called onReady and a second poll of it, which also read both
\* seeds as revealed, has been resumed or is still in flight.
C37_Witness ==
    \E playerRole \in Roles :
        /\ Len(waitingRoom.rooms[playerRole].onReady) = 1
        /\ \E read \in BagToSet(waitingRoom.rooms[playerRole].polls) :
               read.phase = "Revealed"

\* C38: a client whose WaitingRoom has called onReady passes to
\* simulateFullGame and to generateProof the session's id, the creator's
\* stored seed as seed1 and the joiner's stored seed as seed2; the opponent's
\* seed it holds is not 0n, so GameSettle does not ask the user for it; both
\* clients therefore pass the same triple.
C38_SameTripleOnBothClients ==
    \A playerRole \in Roles :
        waitingRoom.rooms[playerRole].onReady # << >> =>
            LET gameState == GameStateReady(waitingRoom.sid, waitingRoom.rooms[playerRole])
                stored    == sessions[waitingRoom.sid]
            IN  /\ gameState.sessionId = waitingRoom.sid
                /\ gameState.opponentSeed # 0
                /\ SimSeeds(gameState) = << stored.seed1, stored.seed2 >>
                /\ ProofSeeds(gameState, gameState.opponentSeed) = SimSeeds(gameState)
                /\ stored.commit1 = computeSeedCommitment(SimSeeds(gameState)[1])
                /\ stored.commit2 = computeSeedCommitment(SimSeeds(gameState)[2])

\* Both rooms have called onReady on a session whose two seeds differ.
C38_Witness ==
    /\ \A playerRole \in Roles : waitingRoom.rooms[playerRole].onReady # << >>
    /\ sessions[waitingRoom.sid].seed1 # sessions[waitingRoom.sid].seed2

\* C33: once player 2 has joined, and with chain reads and reveal
\* submissions that eventually succeed, both WaitingRooms eventually call
\* onReady without any user action.
C33_BothRoomsReachReady ==
    (sessions[waitingRoom.sid].phase # "Open")
        ~> (\A playerRole \in Roles : waitingRoom.rooms[playerRole].onReady # << >>)

\* The same for the sessions in which neither client drew the seed 0.
C33_NonZeroSeedsReachReady ==
    (/\ sessions[waitingRoom.sid].phase # "Open"
     /\ \A playerRole \in Roles : waitingRoom.rooms[playerRole].seed # ZeroSentinel)
        ~> (\A playerRole \in Roles : waitingRoom.rooms[playerRole].onReady # << >>)

\* ---------------------------------------------------------------------------
\* Claims about matchmaking.
\* ---------------------------------------------------------------------------

\* C34: of two clients in startMatchmaking at overlapping times at most one
\* takes the host role and calls onHosting, and a client shown a host is
\* passed that host's session id.
C34_AtMostOneHost ==
    /\ ~ \A publicKey \in Addresses : gameLobby.clients[publicKey].role = "host"
    /\ gameLobby.clients["GA"].onHosting + gameLobby.clients["GB"].onHosting <= 1
    /\ \A publicKey \in Addresses :
          \A k \in DOMAIN gameLobby.clients[publicKey].onFoundHost :
              gameLobby.clients[Peer(publicKey)].pending \in
                  {0, gameLobby.clients[publicKey].onFoundHost[k]}

\* ---------------------------------------------------------------------------
\* Claims about the relay-synchronised boards.
\* ---------------------------------------------------------------------------

\* C35: a client's roundIndex moves by one, and only off a round in which
\* both cards were shown on that client (no round is skipped), whether one
\* or both players press Next Round; once every relayed message has been
\* handled both clients show the same roundIndex.
C35_OneAdvancePerRound ==
    [][/\ \A playerRole \in Roles :
             LET before == gameBoard.boards[playerRole]
                 after  == gameBoard'.boards[playerRole]
             IN  after.roundIndex # before.roundIndex =>
                     /\ after.roundIndex = before.roundIndex + 1
                     /\ before.myDrawn /\ before.oppDrawn
       /\ (\A playerRole \in Roles : gameBoard'.inbox[playerRole] = << >>) =>
              gameBoard'.boards[1].roundIndex = gameBoard'.boards[2].roundIndex]_vars

\* C36: whatever the end reason of the simulated game, a player who keeps
\* drawing and advancing reaches a board with Settle On-Chain enabled, and
\* roundIndex never passes the last entry of game.rounds.
C36_BoardReachesSettle ==
    /\ [](gameBoard.roundIndex < Len(gameBoard.rounds))
    /\ <>GameFinishedOnBoard(gameBoard)

\* The same for the games that end in the round loop (by score or by the
\* Black Spot).
C36_LoopEndedGamesReachSettle ==
    (gameBoard.endReason \in {"score", "blackspot"}) =>
        /\ [](gameBoard.roundIndex < Len(gameBoard.rounds))
        /\ <>GameFinishedOnBoard(gameBoard)

\* ---------------------------------------------------------------------------
\* Claims about the relay's admission.
\* ---------------------------------------------------------------------------

\* C39: no PLAYER_JOINED and no PLAYER_LEFT is broadcast for a connection
\* that was rejected by the size check, and the close of such a connection
\* does not empty an event log.
C39_RejectedConnectionIsSilent ==
    /\ \A k \in DOMAIN relayRoom.broadcast :
          relayRoom.broadcast[k].connectionId \notin relayRoom.rejected
    /\ relayRoom.clearedBy \cap relayRoom.rejected = {}

\* ---------------------------------------------------------------------------
\* Claims about GameSettle's callback.
\* ---------------------------------------------------------------------------

\* C40: GameSettle calls onSettled at most once, also when its settlement
\* poll and its own settle submission complete at about the same time.
C40_OnSettledAtMostOnce == gameSettle.calls <= 1

====
